---- MODULE Spec2Model ----
(***************************************************************************)
(* EcoBolt web client: the device / threshold / alert operations of        *)
(* DeviceManagement and Settings over the hosted backend, the read         *)
(* operations of SupabaseAPI, getCurrentUser, the WatsonX token cache and  *)
(* recommendation parsing, the AuthProvider callbacks and the timeout      *)
(* races.  Each part has its own specification over the shared variables.  *)
(*                                                                         *)
(* Numbers with one decimal in the source (thresholds, pH) are kept as     *)
(* integers in tenths: 7.5 is 75, 300.0 is 3000.                           *)
(***************************************************************************)
EXTENDS Integers, Sequences, FiniteSets, TLC

VARIABLES
  \* ---- hosted backend, as seen by one account
  configured,      \* isSupabaseConfigured()
  dbDevices,       \* devices table: device_ids in creation order
  dbThresholds,    \* thresholds table: set of rows
  dbAlerts,        \* alerts table: set of rows
  sent,            \* the (table, verb) requests the last operation issued
  page,            \* the mounted page: "none", "devices" or "settings"
  \* ---- DeviceManagement component state
  dm_devices, dm_loading, dm_showAddForm, dm_editingDevice, dm_formId,
  dm_error, dm_success,
  \* ---- Settings component state (thresholds tab)
  st_devices, st_selectedDevice, st_thresholds, st_error,
  \* ---- bookkeeping for the threshold claims
  calls,           \* the SupabaseAPI methods the last operation invoked
  ret,             \* what the last direct SupabaseAPI call returned
  lastOk,          \* (device, parameter) -> arguments of the latest successful updateThreshold
  \* ---- sensor readings
  dbSensor,        \* sensor_data table: set of rows
  \* ---- one SupabaseAPI call in flight
  c_op,            \* the method running, "idle" before the first call
  c_args,          \* its arguments and what the backend holds for them
  c_pc,            \* "idle", "awaiting" a backend request, or "done"
  c_await,         \* the request awaited
  c_timer,         \* seconds of the timer raced against it, 0 when there is none
  c_elapsed,       \* seconds waited so far
  c_outs,          \* how the requests awaited so far ended
  \* ---- WatsonXAPI token cache
  w_now,           \* Math.floor(Date.now() / 1000)
  w_cachedToken,   \* cachedToken: Nothing or Just(token)
  w_issued,        \* tokens the IAM endpoint has issued so far
  w_tok,           \* the last generateToken call: what it saw, did and returned
  \* ---- AuthProvider
  a_user,          \* user: Nothing or Just(user)
  a_isLoading,     \* isLoading
  a_mounted,       \* the mounted flag of the effect
  a_subscribed,    \* the auth listener is subscribed
  a_init,          \* initializeAuth: "start", "getSession", "getCurrentUser" or "done"
  a_pending,       \* listener callbacks awaiting getCurrentUser
  a_session,       \* the auth client holds a session
  a_lastEvent,     \* the last auth event delivered to the listener
  a_last,          \* the last step of the provider: operation, email, result, backend requests
  \* ---- WatsonXAPI recommendations
  r_apiKey,        \* VITE_WATSONX_API_KEY or ''
  r_projectId,     \* VITE_WATSONX_PROJECT_ID or ''
  r_sensor,        \* the reading passed to getRecommendations
  r_content,       \* choices[0].message.content the model has written, as lexemes
  r_ret,           \* the last getRecommendations call and what it returned
  h_alert,         \* an alert row was inserted and the trigger has fired
  h_delivery,      \* per webhook URL: status, requests sent, backoff before the next
  api_isAuthenticated,  \* EcoBoltAPI.isAuthenticated of the mock api object
  d_mounted,       \* Dashboard is mounted
  d_sensorData,    \* Dashboard's sensorData: 0 for null, n for the n-th reading object
  d_loading,       \* Dashboard's loading
  d_refreshing,    \* Dashboard's refreshing
  d_calls,         \* api.getLatestSensorData() calls in flight, each with how it will end
  ai               \* AIRecommendations: its state, its pending requests, its last run

devVars == <<configured, dbDevices, dbThresholds, dbAlerts, sent, page,
             dm_devices, dm_loading, dm_showAddForm, dm_editingDevice, dm_formId,
             dm_error, dm_success,
             st_devices, st_selectedDevice, st_thresholds, st_error,
             calls, ret, lastOk>>

readVars == <<dbSensor>>

callVars == <<c_op, c_args, c_pc, c_await, c_timer, c_elapsed, c_outs>>

tokenVars == <<w_now, w_cachedToken, w_issued, w_tok>>

authVars == <<a_user, a_isLoading, a_mounted, a_subscribed, a_init, a_pending,
              a_session, a_lastEvent, a_last>>

recVars == <<r_apiKey, r_projectId, r_sensor, r_content, r_ret>>

\* the parts after the AuthProvider, the token cache, and the calls in flight
hookVars == <<h_alert, h_delivery>>

\* the parts after the recommendations service
dashVars == <<api_isAuthenticated, d_mounted, d_sensorData, d_loading, d_refreshing,
              d_calls, ai>>

laterVars == <<hookVars, dashVars>>

afterAuthVars == <<recVars, laterVars>>
afterTokenVars == <<authVars, afterAuthVars>>
afterCallVars == <<tokenVars, afterTokenVars>>

\* the parts that the devices and reads specifications leave alone
extVars == <<callVars, afterCallVars>>

vars == <<devVars, readVars, extVars>>

Null == "null"
NullNum == 0 - 1

\* ------------------------------------------------------------------ bounds
\* createDefaultThresholds is stopped by a failing call after 0..MaxFailAt
\* accepted calls, or not at all
MaxFailAt == 0

\* device ids typed into the add form
DeviceIds == {"ESP32_001", "ESP32_002"}

\* values typed into a threshold input (tenths)
InputValues == {100}

\* ------------------------------------------------------------ sequences
SeqToSet(s) == { s[i] : i \in 1..Len(s) }

Reverse(s) == [ i \in 1..Len(s) |-> s[Len(s) + 1 - i] ]

RemoveAll(s, x) == SelectSeq(s, LAMBDA e : e # x)

\* ------------------------------------------------- DeviceManagement data
defaultThresholds ==
  << [parameter |-> "atmo_temp",  min_value |-> 150,  max_value |-> 350],
     [parameter |-> "humidity",   min_value |-> 400,  max_value |-> 800],
     [parameter |-> "moisture",   min_value |-> 300,  max_value |-> 700],
     [parameter |-> "ph",         min_value |-> 60,   max_value |-> 75],
     [parameter |-> "ec",         min_value |-> 5,    max_value |-> 20],
     [parameter |-> "soil_temp",  min_value |-> 180,  max_value |-> 300],
     [parameter |-> "nitrogen",   min_value |-> 200,  max_value |-> 500],
     [parameter |-> "phosphorus", min_value |-> 150,  max_value |-> 250],
     [parameter |-> "potassium",  min_value |-> 150,  max_value |-> 400],
     [parameter |-> "light",      min_value |-> 3000, max_value |-> 8000] >>

\* Settings' parameter table, in its own order
thresholdParameters ==
  << [key |-> "atmo_temp",  defaultMin |-> 150,  defaultMax |-> 350],
     [key |-> "humidity",   defaultMin |-> 400,  defaultMax |-> 800],
     [key |-> "light",      defaultMin |-> 3000, defaultMax |-> 8000],
     [key |-> "soil_temp",  defaultMin |-> 180,  defaultMax |-> 300],
     [key |-> "moisture",   defaultMin |-> 300,  defaultMax |-> 700],
     [key |-> "ec",         defaultMin |-> 5,    defaultMax |-> 20],
     [key |-> "ph",         defaultMin |-> 60,   defaultMax |-> 75],
     [key |-> "nitrogen",   defaultMin |-> 200,  defaultMax |-> 500],
     [key |-> "phosphorus", defaultMin |-> 150,  defaultMax |-> 250],
     [key |-> "potassium",  defaultMin |-> 150,  defaultMax |-> 400] >>

Parameters == { defaultThresholds[i].parameter : i \in 1..Len(defaultThresholds) }

Min(a, b) == IF a <= b THEN a ELSE b

\* the parameter whose Settings inputs are exercised
EditParams == { thresholdParameters[1].key }

\* the parameter the backend raises alerts on
AlertParams == {"moisture"}

MsgOneDevice == "You can only add one device per account"
MsgAdded     == "Device added successfully with default thresholds"
MsgUpdated   == "Device updated successfully"
MsgDeleted   == "Device deleted successfully"
MsgNotConfigured == "Supabase is not properly configured. Please check your environment variables."
MsgNotAuth   == "Not authenticated"
MsgBackend   == "backend error"

Req(t, v) == [table |-> t, verb |-> v]

NoRet == [op |-> "", o |-> "", arg |-> "", threw |-> FALSE, value |-> {}]

\* ------------------------------------------------------- backend tables
\* A unique device_id: an insert of an id already in the table is refused.
InsertDevice(devs, id) ==
  IF id \in SeqToSet(devs) THEN [error |-> TRUE, devs |-> devs]
  ELSE [error |-> FALSE, devs |-> Append(devs, id)]

\* Upsert keyed by (device_id, parameter): the row of that pair is replaced.
UpsertThreshold(rows, row) ==
  { r \in rows : ~(r.device_id = row.device_id /\ r.parameter = row.parameter) } \cup {row}

\* Deleting a device removes "all associated data": its thresholds and alerts.
CascadeRows(rows, id) == { r \in rows : r.device_id # id }

ReadOutcomes == {"ok", "nodata", "error", "reject"}
\* what a write meets: "noauth" is supabase.auth.getUser() yielding no user
WriteOutcomes == {"ok", "error", "noauth"}
\* what a component's fetch meets
FetchOutcomes == {"ok", "error"}

Returned(v) == [threw |-> FALSE, value |-> v]
Threw(m) == [threw |-> TRUE, value |-> m]

\* ------------------------------------------------ SupabaseAPI: devices
\* o: what the backend does with the select ("nodata": data is null)
getUserDevices(cfg, o, devs) ==
  IF ~cfg THEN Returned(<<>>)
  ELSE IF o = "reject" THEN Returned(<<>>)
  ELSE IF o = "error" THEN Returned(<<>>)
  ELSE IF o = "nodata" THEN Returned(<<>>)
  ELSE Returned(Reverse(devs))

addDevice(cfg, authed, o, devs, id) ==
  IF ~cfg THEN [threw |-> TRUE, msg |-> MsgNotConfigured, devs |-> devs, reqs |-> {}]
  ELSE IF ~authed THEN [threw |-> TRUE, msg |-> MsgNotAuth, devs |-> devs, reqs |-> {}]
  ELSE LET ins == IF o = "ok" THEN InsertDevice(devs, id) ELSE [error |-> TRUE, devs |-> devs] IN
       [threw |-> ins.error, msg |-> IF ins.error THEN MsgBackend ELSE "",
        devs |-> ins.devs, reqs |-> {Req("devices", "insert")}]

updateDevice(cfg, o, devs, id) ==
  IF ~cfg THEN [threw |-> TRUE, msg |-> MsgNotConfigured, reqs |-> {}]
  ELSE [threw |-> (o # "ok" \/ id \notin SeqToSet(devs)),
        msg |-> IF o # "ok" \/ id \notin SeqToSet(devs) THEN MsgBackend ELSE "",
        reqs |-> {Req("devices", "update")}]

deleteDevice(cfg, o, devs, id) ==
  IF ~cfg THEN [threw |-> TRUE, msg |-> MsgNotConfigured, devs |-> devs, reqs |-> {}]
  ELSE IF o # "ok" THEN [threw |-> TRUE, msg |-> MsgBackend, devs |-> devs,
                         reqs |-> {Req("devices", "delete")}]
  ELSE [threw |-> FALSE, msg |-> "", devs |-> RemoveAll(devs, id),
        reqs |-> {Req("devices", "delete")}]

\* --------------------------------------------- SupabaseAPI: thresholds
ThresholdRow(dev, param, mn, mx) ==
  [device_id |-> dev, parameter |-> param, min_value |-> mn, max_value |-> mx]

\* the earlier version of the list reads: a backend error is thrown
getThresholdsEarlier(cfg, o, rows, deviceId) ==
  IF o = "reject" \/ o = "error" THEN Threw(MsgBackend)
  ELSE Returned(IF deviceId # "" THEN { r \in rows : r.device_id = deviceId } ELSE rows)

getThresholds(cfg, o, rows, deviceId) ==
  IF ~cfg THEN Returned({})
  ELSE IF o = "reject" THEN Returned({})
  ELSE IF o = "error" THEN Returned({})
  ELSE IF o = "nodata" THEN Returned({})
  ELSE Returned(IF deviceId # "" THEN { r \in rows : r.device_id = deviceId } ELSE rows)

updateThresholdInsert(cfg, authed, o, rows, dev, param, mn, mx) ==
  IF ~cfg THEN [threw |-> TRUE, msg |-> MsgNotConfigured, rows |-> rows, reqs |-> {}]
  ELSE IF ~authed THEN [threw |-> TRUE, msg |-> MsgNotAuth, rows |-> rows, reqs |-> {}]
  ELSE IF o # "ok" THEN [threw |-> TRUE, msg |-> MsgBackend, rows |-> rows,
                         reqs |-> {Req("thresholds", "upsert")}]
  ELSE [threw |-> FALSE, msg |-> "",
        rows |-> rows \cup {ThresholdRow(dev, param, mn, mx)},
        reqs |-> {Req("thresholds", "upsert")}]

updateThreshold(cfg, authed, o, rows, dev, param, mn, mx) ==
  IF ~cfg THEN [threw |-> TRUE, msg |-> MsgNotConfigured, rows |-> rows, reqs |-> {}]
  ELSE IF ~authed THEN [threw |-> TRUE, msg |-> MsgNotAuth, rows |-> rows, reqs |-> {}]
  ELSE IF o # "ok" THEN [threw |-> TRUE, msg |-> MsgBackend, rows |-> rows,
                         reqs |-> {Req("thresholds", "upsert")}]
  ELSE [threw |-> FALSE, msg |-> "",
        rows |-> UpsertThreshold(rows, ThresholdRow(dev, param, mn, mx)),
        reqs |-> {Req("thresholds", "upsert")}]

\* ------------------------------------------------- SupabaseAPI: alerts
getAlertsMarkRead(cfg, o, alerts, deviceId) ==
  [threw |-> FALSE,
   value |-> IF ~cfg \/ o # "ok" THEN {}
             ELSE IF deviceId # "" THEN { a \in alerts : a.device_id = deviceId } ELSE alerts,
   reqs |-> IF cfg THEN {Req("alerts", "select"), Req("alerts", "update")} ELSE {}]

getAlerts(cfg, o, alerts, deviceId) ==
  [threw |-> FALSE,
   value |-> IF ~cfg THEN {}
             ELSE IF o = "reject" THEN {}
             ELSE IF o = "error" THEN {}
             ELSE IF o = "nodata" THEN {}
             ELSE IF deviceId # "" THEN { a \in alerts : a.device_id = deviceId } ELSE alerts,
   reqs |-> IF cfg THEN {Req("alerts", "select")} ELSE {}]

subscribeToAlerts(cfg) ==
  [reqs |-> IF cfg THEN {Req("alerts", "subscribe")} ELSE {}]

\* ------------------------------------------- DeviceManagement component
canAddDevice == Len(dm_devices) < 1

\* createDefaultThresholds: the loop stops at the first updateThreshold that
\* throws; k is the number of calls the backend accepts before that.
RECURSIVE DefaultRows(_, _, _, _, _)
DefaultRows(cfg, authed, rows, dev, k) ==
  IF k = 0 THEN rows
  ELSE LET t == defaultThresholds[k]
           before == DefaultRows(cfg, authed, rows, dev, k - 1) IN
       updateThreshold(cfg, authed, "ok", before, dev, t.parameter, t.min_value, t.max_value).rows

createDefaultThresholds(cfg, authed, rows, dev, k) ==
  LET n == IF cfg /\ authed THEN k ELSE 0 IN
  [rows |-> DefaultRows(cfg, authed, rows, dev, n),
   done |-> n,
   reqs |-> IF cfg /\ authed THEN {Req("thresholds", "upsert")} ELSE {}]

\* lastOk after the first n default thresholds of dev were accepted
LastOkDefaults(lo, dev, n) ==
  [ key \in DOMAIN lo |->
      IF key[1] = dev /\ \E i \in 1..n : defaultThresholds[i].parameter = key[2]
      THEN LET i == CHOOSE j \in 1..n : defaultThresholds[j].parameter = key[2] IN
           <<defaultThresholds[i].min_value, defaultThresholds[i].max_value>>
      ELSE lo[key] ]

DefaultStops == (0..Min(MaxFailAt, Len(defaultThresholds))) \cup {Len(defaultThresholds)}

DevReqs(cfg) == IF cfg THEN {Req("devices", "select")} ELSE {}

\* useEffect(() => { fetchDevices() }, []) on a fresh component
DM_Mount ==
  \E o \in FetchOutcomes :
    LET r == getUserDevices(configured, o, dbDevices) IN
    /\ dm_devices' = (IF r.threw THEN <<>> ELSE r.value)
    /\ dm_loading' = FALSE
    /\ dm_showAddForm' = FALSE
    /\ dm_editingDevice' = Null
    /\ dm_formId' = ""
    /\ dm_error' = (IF r.threw THEN "Failed to load devices" ELSE "")
    /\ dm_success' = ""
    /\ sent' = DevReqs(configured)
    /\ calls' = {"getUserDevices"}
    /\ page' = "devices"
    /\ st_devices' = <<>> /\ st_selectedDevice' = "" /\ st_thresholds' = {} /\ st_error' = ""
    /\ ret' = NoRet
    /\ UNCHANGED <<configured, dbDevices, dbThresholds, dbAlerts, lastOk>>

\* the Add Device button (disabled unless canAddDevice)
DM_openAddForm ==
  /\ ~dm_loading /\ canAddDevice /\ ~dm_showAddForm
  /\ dm_showAddForm' = TRUE
  /\ sent' = {} /\ calls' = {}
  /\ ret' = NoRet
  /\ UNCHANGED <<page, configured, dbDevices, dbThresholds, dbAlerts,
                 dm_devices, dm_loading, dm_editingDevice, dm_formId, dm_error, dm_success,
                 st_devices, st_selectedDevice, st_thresholds, st_error, lastOk>>

\* typing the Device ID (the input is disabled while editing)
DM_typeDeviceId ==
  /\ ~dm_loading /\ dm_showAddForm /\ dm_editingDevice = Null
  /\ \E id \in DeviceIds : dm_formId' = id /\ dm_formId # id
  /\ sent' = {} /\ calls' = {}
  /\ ret' = NoRet
  /\ UNCHANGED <<page, configured, dbDevices, dbThresholds, dbAlerts,
                 dm_devices, dm_loading, dm_showAddForm, dm_editingDevice, dm_error, dm_success,
                 st_devices, st_selectedDevice, st_thresholds, st_error, lastOk>>

DM_startEdit ==
  /\ ~dm_loading
  /\ \E d \in SeqToSet(dm_devices) :
       /\ dm_editingDevice # d
       /\ dm_editingDevice' = d
       /\ dm_formId' = d
  /\ dm_showAddForm' = TRUE
  /\ sent' = {} /\ calls' = {}
  /\ ret' = NoRet
  /\ UNCHANGED <<page, configured, dbDevices, dbThresholds, dbAlerts,
                 dm_devices, dm_loading, dm_error, dm_success,
                 st_devices, st_selectedDevice, st_thresholds, st_error, lastOk>>

\* the Cancel button
DM_resetForm ==
  /\ ~dm_loading /\ dm_showAddForm
  /\ dm_formId' = "" /\ dm_showAddForm' = FALSE /\ dm_editingDevice' = Null
  /\ sent' = {} /\ calls' = {}
  /\ ret' = NoRet
  /\ UNCHANGED <<page, configured, dbDevices, dbThresholds, dbAlerts,
                 dm_devices, dm_loading, dm_error, dm_success,
                 st_devices, st_selectedDevice, st_thresholds, st_error, lastOk>>

\* handleSubmit, edit mode
DM_handleSubmitEdit ==
  /\ ~dm_loading /\ dm_showAddForm /\ dm_formId # "" /\ dm_editingDevice # Null
  /\ \E o \in WriteOutcomes, oFetch \in FetchOutcomes :
       LET u == updateDevice(configured, o, dbDevices, dm_editingDevice)
           f == getUserDevices(configured, oFetch, dbDevices) IN
       IF u.threw
       THEN /\ dm_error' = u.msg /\ dm_success' = ""
            /\ sent' = u.reqs /\ calls' = {"updateDevice"}
            /\ UNCHANGED <<dm_devices, dm_showAddForm, dm_editingDevice, dm_formId>>
       ELSE /\ dm_error' = (IF f.threw THEN "Failed to load devices" ELSE "")
            /\ dm_success' = MsgUpdated
            /\ dm_devices' = (IF f.threw THEN dm_devices ELSE f.value)
            /\ dm_formId' = "" /\ dm_showAddForm' = FALSE /\ dm_editingDevice' = Null
            /\ sent' = u.reqs \cup DevReqs(configured)
            /\ calls' = {"updateDevice", "getUserDevices"}
  /\ ret' = NoRet
  /\ UNCHANGED <<page, configured, dbDevices, dbThresholds, dbAlerts, dm_loading,
                 st_devices, st_selectedDevice, st_thresholds, st_error, lastOk>>

\* handleSubmit, add mode, with the one-device check against the local list
handleSubmitAddUnchecked(o, k, oFetch) ==
  LET a == addDevice(configured, o # "noauth", o, dbDevices, dm_formId)
      t == createDefaultThresholds(configured, TRUE, dbThresholds, dm_formId, k)
      f == getUserDevices(configured, oFetch, a.devs) IN
  IF a.threw
  THEN /\ dm_error' = a.msg /\ dm_success' = ""
       /\ sent' = a.reqs /\ calls' = {"addDevice"}
       /\ UNCHANGED <<dbDevices, dbThresholds, lastOk,
                      dm_devices, dm_showAddForm, dm_editingDevice, dm_formId>>
  ELSE /\ dbDevices' = a.devs
       /\ dbThresholds' = t.rows
       /\ lastOk' = LastOkDefaults(lastOk, dm_formId, t.done)
       /\ dm_error' = (IF f.threw THEN "Failed to load devices" ELSE "")
       /\ dm_success' = MsgAdded
       /\ dm_devices' = (IF f.threw THEN dm_devices ELSE f.value)
       /\ dm_formId' = "" /\ dm_showAddForm' = FALSE /\ dm_editingDevice' = Null
       /\ sent' = a.reqs \cup t.reqs \cup DevReqs(configured)
       /\ calls' = {"addDevice", "updateThreshold", "getUserDevices"}

handleSubmitAdd(o, k, oFetch) ==
  IF Len(dm_devices) >= 1
  THEN /\ dm_error' = MsgOneDevice /\ dm_success' = ""
       /\ sent' = {} /\ calls' = {}
       /\ UNCHANGED <<dbDevices, dbThresholds, lastOk,
                      dm_devices, dm_showAddForm, dm_editingDevice, dm_formId>>
  ELSE handleSubmitAddUnchecked(o, k, oFetch)

DM_handleSubmitAdd ==
  /\ ~dm_loading /\ dm_showAddForm /\ dm_formId # "" /\ dm_editingDevice = Null
  /\ \E o \in WriteOutcomes, k \in DefaultStops, oFetch \in FetchOutcomes :
       handleSubmitAdd(o, k, oFetch)
  /\ ret' = NoRet
  /\ UNCHANGED <<page, configured, dbAlerts, dm_loading,
                 st_devices, st_selectedDevice, st_thresholds, st_error>>

\* handleDelete on a listed device; the confirm dialog may be declined
DM_handleDelete ==
  /\ ~dm_loading
  /\ \E d \in SeqToSet(dm_devices), confirmed \in BOOLEAN, o \in WriteOutcomes,
        oFetch \in FetchOutcomes :
       LET x == deleteDevice(configured, o, dbDevices, d)
           f == getUserDevices(configured, oFetch, x.devs) IN
       IF ~confirmed
       THEN /\ sent' = {} /\ calls' = {}
            /\ UNCHANGED <<dbDevices, dbThresholds, dbAlerts, lastOk,
                           dm_devices, dm_error, dm_success>>
       ELSE IF x.threw
       THEN /\ dm_error' = x.msg
            /\ sent' = x.reqs /\ calls' = {"deleteDevice"}
            /\ UNCHANGED <<dbDevices, dbThresholds, dbAlerts, lastOk, dm_devices, dm_success>>
       ELSE /\ dbDevices' = x.devs
            /\ dbThresholds' = CascadeRows(dbThresholds, d)
            /\ dbAlerts' = CascadeRows(dbAlerts, d)
            /\ lastOk' = [ key \in DOMAIN lastOk |-> IF key[1] = d THEN <<>> ELSE lastOk[key] ]
            /\ dm_success' = MsgDeleted
            /\ dm_error' = (IF f.threw THEN "Failed to load devices" ELSE dm_error)
            /\ dm_devices' = (IF f.threw THEN dm_devices ELSE f.value)
            /\ sent' = x.reqs \cup DevReqs(configured)
            /\ calls' = {"deleteDevice", "getUserDevices"}
  /\ ret' = NoRet
  /\ UNCHANGED <<page, configured, dm_loading, dm_showAddForm, dm_editingDevice, dm_formId,
                 st_devices, st_selectedDevice, st_thresholds, st_error>>

\* ---------------------------------------- Settings component (thresholds)
\* value || 0, for a number or null (NullNum stands for a null column)
OrZero(v) == IF v = NullNum THEN 0 ELSE v

getThresholdValue(thresholds, parameter, type) ==
  IF \E t \in thresholds : t.parameter = parameter
  THEN LET t == CHOOSE x \in thresholds : x.parameter = parameter IN
       IF type = "min" THEN OrZero(t.min_value) ELSE OrZero(t.max_value)
  ELSE LET i == CHOOSE j \in 1..Len(thresholdParameters) : thresholdParameters[j].key = parameter IN
       IF type = "min" THEN OrZero(thresholdParameters[i].defaultMin)
       ELSE OrZero(thresholdParameters[i].defaultMax)

ThrReqs(cfg) == IF cfg THEN {Req("thresholds", "select")} ELSE {}

\* fetchDevices on mount, then the selectedDevice effect runs fetchThresholds
ST_Mount ==
  \E o \in FetchOutcomes, oT \in FetchOutcomes :
    LET r == getUserDevices(configured, o, dbDevices)
        sel == IF ~r.threw /\ Len(r.value) > 0 THEN r.value[1] ELSE ""
        t == getThresholds(configured, oT, dbThresholds, sel) IN
    /\ st_devices' = (IF r.threw THEN <<>> ELSE r.value)
    /\ st_selectedDevice' = sel
    /\ st_thresholds' = (IF sel = "" \/ t.threw THEN {} ELSE t.value)
    /\ st_error' = (IF r.threw THEN "Failed to load devices"
                    ELSE IF sel # "" /\ t.threw THEN "Failed to load thresholds" ELSE "")
    /\ sent' = DevReqs(configured) \cup (IF sel # "" THEN ThrReqs(configured) ELSE {})
    /\ calls' = {"getUserDevices"} \cup (IF sel # "" THEN {"getThresholds"} ELSE {})
    /\ page' = "settings"
    /\ dm_devices' = <<>> /\ dm_loading' = TRUE /\ dm_showAddForm' = FALSE
    /\ dm_editingDevice' = Null /\ dm_formId' = "" /\ dm_error' = "" /\ dm_success' = ""
    /\ ret' = NoRet
    /\ UNCHANGED <<configured, dbDevices, dbThresholds, dbAlerts, lastOk>>

\* the Refresh button, and the effect after the device select changes
ST_fetchThresholds ==
  /\ Len(st_devices) > 0
  /\ \E d \in SeqToSet(st_devices), oT \in FetchOutcomes :
       LET t == getThresholds(configured, oT, dbThresholds, d) IN
       /\ st_selectedDevice' = d
       /\ st_thresholds' = (IF t.threw THEN st_thresholds ELSE t.value)
       /\ st_error' = (IF t.threw THEN "Failed to load thresholds" ELSE "")
  /\ sent' = ThrReqs(configured) /\ calls' = {"getThresholds"}
  /\ ret' = NoRet
  /\ UNCHANGED <<page, configured, dbDevices, dbThresholds, dbAlerts,
                 dm_devices, dm_loading, dm_showAddForm, dm_editingDevice, dm_formId,
                 dm_error, dm_success, st_devices, lastOk>>

\* Settings.updateThreshold: the API call, then fetchThresholds
settingsUpdateThreshold(parameter, minValue, maxValue, o, oT) ==
  LET u == updateThreshold(configured, o # "noauth", o, dbThresholds,
                           st_selectedDevice, parameter, minValue, maxValue)
      t == getThresholds(configured, oT, u.rows, st_selectedDevice) IN
  IF u.threw
  THEN /\ st_error' = "Failed to update threshold"
       /\ sent' = u.reqs /\ calls' = {"updateThreshold"}
       /\ UNCHANGED <<dbThresholds, st_thresholds, lastOk>>
  ELSE /\ dbThresholds' = u.rows
       /\ lastOk' = [lastOk EXCEPT ![<<st_selectedDevice, parameter>>] = <<minValue, maxValue>>]
       /\ st_thresholds' = (IF t.threw THEN st_thresholds ELSE t.value)
       /\ st_error' = (IF t.threw THEN "Failed to load thresholds" ELSE "")
       /\ sent' = u.reqs \cup ThrReqs(configured)
       /\ calls' = {"updateThreshold", "getThresholds"}

\* handleThresholdChange: a number typed in the min or max input of a parameter
ST_handleThresholdChange ==
  /\ st_selectedDevice # ""
  /\ \E parameter \in EditParams, type \in {"min", "max"}, numValue \in InputValues,
        o \in WriteOutcomes, oT \in FetchOutcomes :
       LET currentMin == getThresholdValue(st_thresholds, parameter, "min")
           currentMax == getThresholdValue(st_thresholds, parameter, "max")
           newMin == IF type = "min" THEN numValue ELSE currentMin
           newMax == IF type = "max" THEN numValue ELSE currentMax IN
       IF newMin <= newMax
       THEN settingsUpdateThreshold(parameter, newMin, newMax, o, oT)
       ELSE /\ st_error' = "Minimum value cannot be greater than maximum value"
            /\ sent' = {} /\ calls' = {}
            /\ UNCHANGED <<dbThresholds, st_thresholds, lastOk>>
  /\ ret' = NoRet
  /\ UNCHANGED <<page, configured, dbDevices, dbAlerts,
                 dm_devices, dm_loading, dm_showAddForm, dm_editingDevice, dm_formId,
                 dm_error, dm_success, st_devices, st_selectedDevice>>

\* ------------------------------------------ direct SupabaseAPI alert calls
API_getAlerts ==
  /\ \E deviceId \in DeviceIds \cup {""}, o \in ReadOutcomes :
       LET r == getAlerts(configured, o, dbAlerts, deviceId) IN
       /\ ret' = [op |-> "getAlerts", o |-> o, arg |-> deviceId,
                  threw |-> r.threw, value |-> r.value]
       /\ sent' = r.reqs
  /\ calls' = {"getAlerts"}
  /\ UNCHANGED <<page, configured, dbDevices, dbThresholds, dbAlerts,
                 dm_devices, dm_loading, dm_showAddForm, dm_editingDevice, dm_formId,
                 dm_error, dm_success,
                 st_devices, st_selectedDevice, st_thresholds, st_error, lastOk>>

API_subscribeToAlerts ==
  /\ ret' = [op |-> "subscribeToAlerts", o |-> "", arg |-> "", threw |-> FALSE, value |-> {}]
  /\ sent' = subscribeToAlerts(configured).reqs
  /\ calls' = {"subscribeToAlerts"}
  /\ UNCHANGED <<page, configured, dbDevices, dbThresholds, dbAlerts,
                 dm_devices, dm_loading, dm_showAddForm, dm_editingDevice, dm_formId,
                 dm_error, dm_success,
                 st_devices, st_selectedDevice, st_thresholds, st_error, lastOk>>

\* ------------------------------------------------------------ environment
\* the backend raises an alert for a registered device
Env_raiseAlert ==
  /\ configured
  /\ \E d \in SeqToSet(dbDevices), p \in AlertParams :
       /\ [device_id |-> d, parameter |-> p] \notin dbAlerts
       /\ dbAlerts' = dbAlerts \cup {[device_id |-> d, parameter |-> p]}
  /\ sent' = {} /\ calls' = {}
  /\ ret' = NoRet
  /\ UNCHANGED <<page, configured, dbDevices, dbThresholds,
                 dm_devices, dm_loading, dm_showAddForm, dm_editingDevice, dm_formId,
                 dm_error, dm_success,
                 st_devices, st_selectedDevice, st_thresholds, st_error, lastOk>>

\* ------------------------------------------------ devices specification
\* no SupabaseAPI call in flight
NoArgs == [userId |-> "", userEmail |-> "", meta |-> Null, rows |-> <<>>]

IdleCalls ==
  /\ c_op = "idle" /\ c_args = NoArgs /\ c_pc = "idle" /\ c_await = ""
  /\ c_timer = 0 /\ c_elapsed = 0 /\ c_outs = <<>>

\* a fresh WatsonXAPI object: nothing cached, nothing requested
NoTok == [called |-> FALSE, now |-> 0, before |-> <<>>, resp |-> "", requested |-> FALSE,
          threw |-> FALSE, value |-> 0]

IdleToken == w_now = 0 /\ w_cachedToken = <<>> /\ w_issued = 0 /\ w_tok = NoTok

\* useState(null), useState(true); the effect has not run yet
IdleAuth ==
  /\ a_user = <<>> /\ a_isLoading = TRUE /\ a_mounted = TRUE /\ a_subscribed = FALSE
  /\ a_init = "start" /\ a_pending = 0 /\ a_session = FALSE /\ a_lastEvent = ""
  /\ a_last = [op |-> "", email |-> "", ok |-> TRUE, requests |-> {}]

\* getRecommendations not called yet
NoRec == [called |-> FALSE, chat |-> "", tokenThrew |-> FALSE,
          threw |-> FALSE, value |-> <<>>]

IdleRecs ==
  /\ r_apiKey = "" /\ r_projectId = ""
  /\ r_sensor = [moisture |-> 45, ph |-> 65, n |-> 40]
  /\ r_content = <<>> /\ r_ret = NoRec

\* the environment variables that can hold a webhook URL
WebhookUrls == {"ALERT_WEBHOOK_URL", "SLACK_WEBHOOK_URL", "DISCORD_WEBHOOK_URL"}

\* no alert inserted yet
IdleHooks ==
  /\ h_alert = FALSE
  /\ h_delivery = [ u \in WebhookUrls |-> [status |-> "idle", sent |-> 0, backoff |-> 0] ]

\* AIRecommendations before its first render: the useState initial values
AiInitial ==
  [mounted |-> FALSE, isConfigured |-> FALSE, hasLoadedOnce |-> FALSE, loading |-> TRUE,
   refreshing |-> FALSE, recommendations |-> "", pending |-> 0,
   run |-> [auto |-> FALSE, source |-> ""], auto |-> 0]

\* nobody logged in to the mock api, the Dashboard is not mounted
IdleDash ==
  /\ api_isAuthenticated = FALSE
  /\ d_mounted = FALSE /\ d_sensorData = 0 /\ d_loading = TRUE /\ d_refreshing = FALSE
  /\ d_calls = <<>>
  /\ ai = AiInitial

IdleLater == IdleHooks /\ IdleDash

IdleExt == IdleCalls /\ IdleToken /\ IdleAuth /\ IdleRecs /\ IdleLater

\* no component mounted, nothing called yet
IdleComponents ==
  /\ sent = {} /\ calls = {} /\ page = "none"
  /\ ret = NoRet
  /\ dm_devices = <<>> /\ dm_loading = TRUE /\ dm_showAddForm = FALSE
  /\ dm_editingDevice = Null /\ dm_formId = "" /\ dm_error = "" /\ dm_success = ""
  /\ st_devices = <<>> /\ st_selectedDevice = "" /\ st_thresholds = {} /\ st_error = ""
  /\ lastOk = [ key \in DeviceIds \X Parameters |-> <<>> ]

InitDevices ==
  /\ configured \in BOOLEAN
  /\ dbDevices = <<>> /\ dbThresholds = {} /\ dbAlerts = {}
  /\ IdleComponents
  /\ dbSensor = {}
  /\ IdleExt

NextDevices ==
  \/ DM_Mount /\ UNCHANGED <<readVars, extVars>>
  \/ DM_openAddForm /\ UNCHANGED <<readVars, extVars>>
  \/ DM_typeDeviceId /\ UNCHANGED <<readVars, extVars>>
  \/ DM_startEdit /\ UNCHANGED <<readVars, extVars>>
  \/ DM_resetForm /\ UNCHANGED <<readVars, extVars>>
  \/ DM_handleSubmitEdit /\ UNCHANGED <<readVars, extVars>>
  \/ DM_handleSubmitAdd /\ UNCHANGED <<readVars, extVars>>
  \/ DM_handleDelete /\ UNCHANGED <<readVars, extVars>>
  \/ ST_Mount /\ UNCHANGED <<readVars, extVars>>
  \/ ST_fetchThresholds /\ UNCHANGED <<readVars, extVars>>
  \/ ST_handleThresholdChange /\ UNCHANGED <<readVars, extVars>>
  \/ API_getAlerts /\ UNCHANGED <<readVars, extVars>>
  \/ API_subscribeToAlerts /\ UNCHANGED <<readVars, extVars>>
  \/ Env_raiseAlert /\ UNCHANGED <<readVars, extVars>>

SpecDevices == InitDevices /\ [][NextDevices]_vars

\* ------------------------------------------------ SupabaseAPI: sensor data
\* hours; the clock reading of the run
Now == 30 * 24 + 280
\* timestamps of ingested readings: 10 h, 100 h and 800 h old
SampleTimes == {Now - 10, Now - 100, Now - 800}
\* number of rows the sensor_data table is filled with
MaxReadings == 2

SampleValues ==
  { [atmo_temp |-> 255, humidity |-> 652, light |-> 4500, ec |-> 12, soil_temp |-> 221,
     moisture |-> 458, nitrogen |-> 350, phosphorus |-> 185, potassium |-> 283, ph |-> 68],
    [atmo_temp |-> 0, humidity |-> NullNum, light |-> 4500, ec |-> NullNum, soil_temp |-> 221,
     moisture |-> NullNum, nitrogen |-> 0, phosphorus |-> 185, potassium |-> NullNum, ph |-> 55] }

SensorRow(dev, ts, v) ==
  [device_id |-> dev, timestamp |-> ts,
   atmo_temp |-> v.atmo_temp, humidity |-> v.humidity, light |-> v.light, ec |-> v.ec,
   soil_temp |-> v.soil_temp, moisture |-> v.moisture, nitrogen |-> v.nitrogen,
   phosphorus |-> v.phosphorus, potassium |-> v.potassium, ph |-> v.ph]

transformSensorData(data) ==
  [timestamp |-> data.timestamp,
   atmoTemp |-> OrZero(data.atmo_temp),
   humidity |-> OrZero(data.humidity),
   light |-> OrZero(data.light),
   ec |-> OrZero(data.ec),
   soilTemp |-> OrZero(data.soil_temp),
   moisture |-> OrZero(data.moisture),
   n |-> OrZero(data.nitrogen),
   p |-> OrZero(data.phosphorus),
   k |-> OrZero(data.potassium),
   ph |-> OrZero(data.ph)]

\* .order('timestamp', ascending) of a set of rows with distinct timestamps
RECURSIVE OrderAsc(_)
OrderAsc(rows) ==
  IF rows = {} THEN <<>>
  ELSE LET first == CHOOSE r \in rows : \A q \in rows : r.timestamp <= q.timestamp IN
       <<first>> \o OrderAsc(rows \ {first})

OrderDesc(rows) == Reverse(OrderAsc(rows))

ForDevice(rows, deviceId) ==
  IF deviceId # "" THEN { r \in rows : r.device_id = deviceId } ELSE rows

\* a nullable result: <<>> is null, <<x>> is the value x
Nothing == <<>>
Just(x) == <<x>>

\* the earlier version: a backend error other than "no rows" is thrown
getLatestSensorDataEarlier(cfg, o, rows, deviceId) ==
  IF o = "reject" \/ o = "error" THEN Threw(MsgBackend)
  ELSE IF o = "nodata" \/ ForDevice(rows, deviceId) = {} THEN Returned(Nothing)
  ELSE Returned(Just(transformSensorData(OrderDesc(ForDevice(rows, deviceId))[1])))

getLatestSensorData(cfg, o, rows, deviceId) ==
  IF ~cfg THEN Returned(Nothing)
  ELSE IF o = "reject" THEN Returned(Nothing)
  ELSE IF o = "error" THEN Returned(Nothing)
  ELSE LET data == IF o = "nodata" THEN <<>> ELSE OrderDesc(ForDevice(rows, deviceId)) IN
       IF Len(data) = 0 THEN Returned(Nothing)
       ELSE Returned(Just(transformSensorData(data[1])))

TimeRanges == {"24h", "7d", "30d"}

RangeHours(timeRange) ==
  IF timeRange = "24h" THEN 24 ELSE IF timeRange = "7d" THEN 7 * 24 ELSE 30 * 24

MapTransform(seq) == [ i \in 1..Len(seq) |-> transformSensorData(seq[i]) ]

getSensorDataHistory(cfg, o, rows, timeRange, deviceId) ==
  IF ~cfg THEN Returned(<<>>)
  ELSE IF timeRange \notin TimeRanges THEN Returned(<<>>)
  ELSE IF o = "reject" THEN Returned(<<>>)
  ELSE IF o = "error" THEN Returned(<<>>)
  ELSE IF o = "nodata" THEN Returned(<<>>)
  ELSE LET startTime == Now - RangeHours(timeRange) IN
       Returned(MapTransform(OrderAsc(
         { r \in ForDevice(rows, deviceId) : r.timestamp >= startTime })))

\* ---------------------------------------------- direct SupabaseAPI reads
DeviceArgs == DeviceIds \cup {""}

API_getLatestSensorData ==
  /\ \E deviceId \in DeviceArgs, o \in ReadOutcomes :
       LET r == getLatestSensorData(configured, o, dbSensor, deviceId) IN
       ret' = [op |-> "getLatestSensorData", o |-> o, arg |-> deviceId,
               threw |-> r.threw, value |-> r.value]
  /\ sent' = (IF configured THEN {Req("sensor_data", "select")} ELSE {})
  /\ calls' = {"getLatestSensorData"}

API_getSensorDataHistory ==
  /\ \E timeRange \in TimeRanges, deviceId \in DeviceArgs, o \in ReadOutcomes :
       LET r == getSensorDataHistory(configured, o, dbSensor, timeRange, deviceId) IN
       ret' = [op |-> "getSensorDataHistory", o |-> o, arg |-> deviceId,
               threw |-> r.threw, value |-> r.value]
  /\ sent' = (IF configured THEN {Req("sensor_data", "select")} ELSE {})
  /\ calls' = {"getSensorDataHistory"}

API_getUserDevices ==
  /\ \E o \in ReadOutcomes :
       LET r == getUserDevices(configured, o, dbDevices) IN
       ret' = [op |-> "getUserDevices", o |-> o, arg |-> "",
               threw |-> r.threw, value |-> r.value]
  /\ sent' = DevReqs(configured)
  /\ calls' = {"getUserDevices"}

API_getThresholds ==
  /\ \E deviceId \in DeviceArgs, o \in ReadOutcomes :
       LET r == getThresholds(configured, o, dbThresholds, deviceId) IN
       ret' = [op |-> "getThresholds", o |-> o, arg |-> deviceId,
               threw |-> r.threw, value |-> r.value]
  /\ sent' = ThrReqs(configured)
  /\ calls' = {"getThresholds"}

\* the ingestion endpoint stores a reading of a device
Env_ingest ==
  /\ Cardinality(dbSensor) < MaxReadings
  /\ \E d \in DeviceIds, ts \in SampleTimes, v \in SampleValues :
       /\ \A r \in dbSensor : r.timestamp # ts
       /\ dbSensor' = dbSensor \cup {SensorRow(d, ts, v)}
  /\ sent' = {} /\ calls' = {} /\ ret' = NoRet

\* -------------------------------------------------- reads specification
compVars == <<page, dm_devices, dm_loading, dm_showAddForm, dm_editingDevice, dm_formId,
              dm_error, dm_success, st_devices, st_selectedDevice, st_thresholds, st_error,
              lastOk>>

\* the tables hold what earlier sessions left in them
SampleBackends ==
  { [devices |-> <<>>, thresholds |-> {}, alerts |-> {}],
    [devices |-> <<"ESP32_001">>,
     thresholds |-> {ThresholdRow("ESP32_001", "moisture", 300, 700)},
     alerts |-> {[device_id |-> "ESP32_001", parameter |-> "moisture"]}],
    [devices |-> <<"ESP32_001", "ESP32_002">>,
     thresholds |-> {ThresholdRow("ESP32_001", "moisture", 300, 700),
                     ThresholdRow("ESP32_002", "ph", 60, 75)},
     alerts |-> {[device_id |-> "ESP32_002", parameter |-> "moisture"]}] }

InitReads ==
  /\ configured \in BOOLEAN
  /\ \E b \in SampleBackends :
       dbDevices = b.devices /\ dbThresholds = b.thresholds /\ dbAlerts = b.alerts
  /\ dbSensor = {}
  /\ IdleComponents
  /\ IdleExt

NextReads ==
  \/ API_getLatestSensorData
       /\ UNCHANGED <<configured, dbDevices, dbThresholds, dbAlerts, dbSensor, compVars, extVars>>
  \/ API_getSensorDataHistory
       /\ UNCHANGED <<configured, dbDevices, dbThresholds, dbAlerts, dbSensor, compVars, extVars>>
  \/ API_getUserDevices
       /\ UNCHANGED <<configured, dbDevices, dbThresholds, dbAlerts, dbSensor, compVars, extVars>>
  \/ API_getThresholds
       /\ UNCHANGED <<configured, dbDevices, dbThresholds, dbAlerts, dbSensor, compVars, extVars>>
  \/ API_getAlerts /\ UNCHANGED <<readVars, extVars>>
  \/ Env_ingest
       /\ UNCHANGED <<configured, dbDevices, dbThresholds, dbAlerts, compVars, extVars>>

SpecReads == InitReads /\ [][NextReads]_vars

\* ------------------------------------------- SupabaseAPI: getCurrentUser
\* a || b on strings: null, undefined and '' are falsy
OrElse(a, b) == IF a = Null \/ a = "" THEN b ELSE a

\* profile?.field when there is no profile row
NoProfile == [full_name |-> Null, phone |-> Null, farm_name |-> Null, location |-> Null]

\* the user of the session held by the auth client
SessionUser == [id |-> "u1", email |-> "asha@farm"]

ProfileRows ==
  { [full_name |-> "Asha", phone |-> "555", farm_name |-> "Green Acres", location |-> "Pune"],
    [full_name |-> Null, phone |-> Null, farm_name |-> "Green Acres", location |-> Null],
    [full_name |-> "", phone |-> "", farm_name |-> "", location |-> ""] }

MetaNames == {Null, "", "Asha M"}

\* the earlier getCurrentUser: the name falls back to ''
userDataEarlier(id, email, profile, meta) ==
  [id |-> id, email |-> email,
   name |-> OrElse(profile.full_name, OrElse(meta, "")),
   phone |-> OrElse(profile.phone, ""),
   farmName |-> OrElse(profile.farm_name, ""),
   location |-> OrElse(profile.location, "")]

userData(id, email, profile, meta) ==
  [id |-> id, email |-> email,
   name |-> OrElse(profile.full_name, OrElse(meta, "User")),
   phone |-> OrElse(profile.phone, ""),
   farmName |-> OrElse(profile.farm_name, ""),
   location |-> OrElse(profile.location, "")]

fallbackUser(id, email, meta) ==
  [id |-> id, email |-> email, name |-> OrElse(meta, "User"),
   phone |-> "", farmName |-> "", location |-> ""]

\* seconds of the timers raced against the requests of getCurrentUser
ConnectionTimeout == 5
SessionTimeout == 5
ProfileTimeout == 3

\* how an awaited request can end: the backend's four answers, or the timer
AwaitOutcomes == ReadOutcomes \cup {"timeout"}

\* the profile query and what follows it: a rejected or timed-out race is
\* caught and gives the fallback user; an error answer has no data
profileFetch(id, email, meta, rows, o) ==
  IF o \in {"reject", "timeout"} THEN Returned(Just(fallbackUser(id, email, meta)))
  ELSE LET data == IF o = "ok" THEN rows ELSE <<>>
           profile == IF Len(data) > 0 THEN data[1] ELSE NoProfile IN
       Returned(Just(userData(id, email, profile, meta)))

UsesProvided(a) == a.userId # "" /\ a.userEmail # ""

\* outs: how the requests awaited so far ended, in order
getCurrentUser(cfg, a, outs) ==
  IF ~cfg THEN Returned(Nothing)
  ELSE IF UsesProvided(a)
  THEN profileFetch(a.userId, a.userEmail, a.meta, a.rows, outs[1])
  ELSE IF outs[1] \in {"reject", "timeout"} THEN Returned(Nothing)
  ELSE IF outs[2] # "ok" THEN Returned(Nothing)
  ELSE profileFetch(SessionUser.id, SessionUser.email, a.meta, a.rows, outs[3])

\* --------------------------------------------- SupabaseAPI calls in flight
CallOps == {"getCurrentUser", "getUserDevices", "getLatestSensorData",
            "getSensorDataHistory", "getThresholds", "getAlerts"}

CallArgs(op) ==
  IF op = "getCurrentUser"
  THEN [userId : {"", SessionUser.id}, userEmail : {"", SessionUser.email},
        meta : MetaNames, rows : {<<>>} \cup { <<r>> : r \in ProfileRows }]
  ELSE {NoArgs}

\* the request the method awaits next, "" when it returns
NextAwait(op, cfg, a, outs) ==
  IF ~cfg THEN ""
  ELSE IF op = "getCurrentUser"
  THEN IF UsesProvided(a) THEN (IF Len(outs) = 0 THEN "profile" ELSE "")
       ELSE IF Len(outs) = 0 THEN "testConnection"
       ELSE IF Len(outs) = 1
            THEN (IF outs[1] \in {"reject", "timeout"} THEN "" ELSE "getSession")
       ELSE IF Len(outs) = 2 THEN (IF outs[2] = "ok" THEN "profile" ELSE "")
       ELSE ""
  ELSE IF Len(outs) = 0 THEN "query" ELSE ""

\* the timer raced against a request: only the requests of getCurrentUser have one
TimerOf(request) ==
  CASE request = "testConnection" -> ConnectionTimeout
    [] request = "getSession" -> SessionTimeout
    [] request = "profile" -> ProfileTimeout
    [] OTHER -> 0

CallResult(op, a, outs) ==
  LET o == IF Len(outs) > 0 THEN outs[Len(outs)] ELSE ""
      r == CASE op = "getCurrentUser" -> getCurrentUser(configured, a, outs)
             [] op = "getUserDevices" -> getUserDevices(configured, o, dbDevices)
             [] op = "getLatestSensorData" ->
                  getLatestSensorData(configured, o, dbSensor, "")
             [] op = "getSensorDataHistory" ->
                  getSensorDataHistory(configured, o, dbSensor, "24h", "")
             [] op = "getThresholds" -> getThresholds(configured, o, dbThresholds, "")
             [] OTHER -> getAlerts(configured, o, dbAlerts, "") IN
  [op |-> op, o |-> o, arg |-> "", threw |-> r.threw, value |-> r.value]

\* run the method from its last await to the next one, or to its return
Advance(op, a, outs) ==
  LET request == NextAwait(op, configured, a, outs) IN
  /\ c_op' = op /\ c_args' = a /\ c_outs' = outs /\ c_elapsed' = 0
  /\ IF request = ""
     THEN /\ c_pc' = "done" /\ c_await' = "" /\ c_timer' = 0
          /\ ret' = CallResult(op, a, outs)
     ELSE /\ c_pc' = "awaiting" /\ c_await' = request /\ c_timer' = TimerOf(request)
          /\ ret' = NoRet
  /\ UNCHANGED <<configured, dbDevices, dbThresholds, dbAlerts, dbSensor,
                 sent, calls, compVars>>

Call_start ==
  /\ c_pc # "awaiting"
  /\ \E op \in CallOps : \E a \in CallArgs(op) : Advance(op, a, <<>>)

\* the backend answers before the timer, if there is one, has run out
Backend_answer ==
  /\ c_pc = "awaiting"
  /\ c_timer = 0 \/ c_elapsed < c_timer
  /\ \E o \in ReadOutcomes : Advance(c_op, c_args, Append(c_outs, o))

\* setTimeout(() => reject(...)): the race is lost to the timer
Timer_fire ==
  /\ c_pc = "awaiting"
  /\ c_timer > 0 /\ c_elapsed >= c_timer
  /\ Advance(c_op, c_args, Append(c_outs, "timeout"))

\* a second passes on the timer of the awaited request
Clock_tick ==
  /\ c_pc = "awaiting"
  /\ c_timer > 0 /\ c_elapsed < c_timer
  /\ c_elapsed' = c_elapsed + 1
  /\ UNCHANGED <<c_op, c_args, c_pc, c_await, c_timer, c_outs, ret,
                 configured, dbDevices, dbThresholds, dbAlerts, dbSensor,
                 sent, calls, compVars>>

InitCalls ==
  /\ configured \in BOOLEAN
  /\ \E b \in SampleBackends :
       dbDevices = b.devices /\ dbThresholds = b.thresholds /\ dbAlerts = b.alerts
  /\ dbSensor = {}
  /\ IdleComponents
  /\ IdleLater
  /\ IdleCalls
  /\ IdleToken
  /\ IdleAuth
  /\ IdleRecs

NextCalls ==
  \/ Call_start /\ UNCHANGED afterCallVars
  \/ Backend_answer /\ UNCHANGED afterCallVars
  \/ Timer_fire /\ UNCHANGED afterCallVars
  \/ Clock_tick /\ UNCHANGED afterCallVars

SpecCalls == InitCalls /\ [][NextCalls]_vars

\* the timers and the clock run; nothing obliges the backend to answer
SpecCallsFair ==
  /\ SpecCalls
  /\ WF_vars(Timer_fire /\ UNCHANGED afterCallVars)
  /\ WF_vars(Clock_tick /\ UNCHANGED afterCallVars)

\* ------------------------------------------------ WatsonXAPI: token cache
tokenExpiryBuffer == 300

\* the clock is followed up to MaxNow seconds; IAM issues up to MaxTokens tokens
MaxNow == 1000
MaxTokens == 3

\* seconds between two looks at the clock
ClockSteps == {100, 200}

\* expires_in of the tokens IAM issues
Lifetimes == {200, 500}

\* answers of the IAM endpoint: a token, a non-OK status, or no answer (fetch rejects)
IamResponses == {"ok", "http_error", "reject"}

WatsonXToken(n, expiration) == [access_token |-> n, expiration |-> expiration]

\* a cache check that forgets the buffer
isTokenValidNoBuffer(cachedToken, now) ==
  IF cachedToken = Nothing THEN FALSE
  ELSE now < cachedToken[1].expiration

isTokenValid(cachedToken, now) ==
  IF cachedToken = Nothing THEN FALSE
  ELSE LET expiryWithBuffer == cachedToken[1].expiration - tokenExpiryBuffer IN
       now < expiryWithBuffer

\* tokenData: the token IAM would issue now; value 0 stands for no token returned
generateToken(apiKey, cachedToken, now, resp, tokenData) ==
  IF apiKey = ""
  THEN [threw |-> TRUE, value |-> 0, cache |-> cachedToken, requested |-> FALSE]
  ELSE IF cachedToken # Nothing /\ isTokenValid(cachedToken, now)
  THEN [threw |-> FALSE, value |-> cachedToken[1].access_token,
        cache |-> cachedToken, requested |-> FALSE]
  ELSE IF resp # "ok"
  THEN [threw |-> TRUE, value |-> 0, cache |-> cachedToken, requested |-> TRUE]
  ELSE [threw |-> FALSE, value |-> tokenData.access_token,
        cache |-> Just(tokenData), requested |-> TRUE]

\* getRecommendations reaches generateToken only with an API key
ApiKey == "key"

\* one call of generateToken against the cache: resp is the IAM answer and
\* life the expires_in of the token it would issue
generateTokenCall(apiKey, resp, life) ==
  LET tokenData == WatsonXToken(w_issued + 1, w_now + life)
      g == generateToken(apiKey, w_cachedToken, w_now, resp, tokenData) IN
  /\ w_cachedToken' = g.cache
  /\ w_issued' = (IF g.requested /\ resp = "ok" THEN w_issued + 1 ELSE w_issued)
  /\ w_tok' = [called |-> TRUE, now |-> w_now, before |-> w_cachedToken,
               resp |-> (IF g.requested THEN resp ELSE ""),
               requested |-> g.requested, threw |-> g.threw, value |-> g.value]
  /\ UNCHANGED w_now

Token_generateToken ==
  /\ w_issued < MaxTokens
  /\ \E resp \in IamResponses, life \in Lifetimes : generateTokenCall(ApiKey, resp, life)

Token_clock ==
  /\ \E d \in ClockSteps : w_now + d <= MaxNow /\ w_now' = w_now + d
  /\ UNCHANGED <<w_cachedToken, w_issued, w_tok>>

InitToken ==
  /\ configured = TRUE
  /\ dbDevices = <<>> /\ dbThresholds = {} /\ dbAlerts = {} /\ dbSensor = {}
  /\ IdleComponents
  /\ IdleLater
  /\ IdleCalls
  /\ IdleToken
  /\ IdleAuth
  /\ IdleRecs

NextToken ==
  \/ Token_generateToken /\ UNCHANGED <<devVars, readVars, callVars, afterTokenVars>>
  \/ Token_clock /\ UNCHANGED <<devVars, readVars, callVars, afterTokenVars>>

SpecToken == InitToken /\ [][NextToken]_vars

\* ------------------------------------------------------------ AuthProvider
\* listener callbacks that can be awaiting getCurrentUser at the same time
MaxPending == 2

DemoUser == [id |-> "demo-user", email |-> "demo@ecobolt.com", name |-> "Demo User",
             phone |-> "+1-555-0123", farmName |-> "Demo Farm",
             location |-> "Demo Location"]

AuthEvents == {"SIGNED_IN", "SIGNED_OUT", "TOKEN_REFRESHED"}

\* the addresses typed into the login and registration forms
Emails == {"asha@farm", ""}

\* one step of the provider and the requests it sent to the backend
AuthStep(op, email, ok, requests) ==
  [op |-> op, email |-> email, ok |-> ok, requests |-> requests]

\* getCurrentUser() as AuthProvider calls it: no arguments, the session path
SessionArgs ==
  [NoArgs EXCEPT !.meta = "Asha M",
                 !.rows = << [full_name |-> "Asha", phone |-> "555",
                              farm_name |-> "Green Acres", location |-> "Pune"] >>]

\* how its three requests can end: all answered, profile query timed out,
\* connection test rejected, no session
SessionOuts == { <<"ok", "ok", "ok">>, <<"ok", "ok", "timeout">>,
                 <<"reject", "ok", "ok">>, <<"ok", "nodata", "ok">> }

currentUser(outs) == getCurrentUser(TRUE, SessionArgs, outs).value

\* useEffect: initializeAuth up to its first await, then the subscription
Auth_effect ==
  /\ a_init = "start"
  /\ IF ~configured
     THEN /\ a_user' = Just(DemoUser) /\ a_isLoading' = FALSE
          /\ a_init' = "done" /\ a_subscribed' = FALSE
          /\ a_last' = AuthStep("initializeAuth", "", TRUE, {})
     ELSE /\ a_init' = "getSession" /\ a_subscribed' = TRUE
          /\ UNCHANGED <<a_user, a_isLoading>>
          /\ a_last' = AuthStep("initializeAuth", "", TRUE,
                                {"auth.getSession", "auth.onAuthStateChange"})
  /\ UNCHANGED <<a_mounted, a_pending, a_session, a_lastEvent>>

\* initializeAuth after supabase.auth.getSession() has settled
Auth_initSession ==
  /\ a_init = "getSession"
  /\ \E o \in ReadOutcomes :
       /\ o = "ok" => a_session
       /\ o = "nodata" => ~a_session
       /\ IF o = "ok" /\ a_mounted
          THEN /\ a_init' = "getCurrentUser" /\ UNCHANGED a_isLoading
               /\ a_last' = AuthStep("initializeAuth", "", TRUE, {"getCurrentUser"})
          ELSE /\ a_init' = "done"
               /\ a_isLoading' = (IF a_mounted THEN FALSE ELSE a_isLoading)
               /\ a_last' = AuthStep("initializeAuth", "", TRUE, {})
  /\ UNCHANGED <<a_user, a_mounted, a_subscribed, a_pending, a_session, a_lastEvent>>

\* initializeAuth after getCurrentUser() has returned
Auth_initUser ==
  /\ a_init = "getCurrentUser"
  /\ \E outs \in SessionOuts :
       a_user' = (IF a_mounted THEN currentUser(outs) ELSE a_user)
  /\ a_isLoading' = (IF a_mounted THEN FALSE ELSE a_isLoading)
  /\ a_init' = "done"
  /\ a_last' = AuthStep("initializeAuth", "", TRUE, {})
  /\ UNCHANGED <<a_mounted, a_subscribed, a_pending, a_session, a_lastEvent>>

\* the listener callback, from the event to its await or its end
Auth_event ==
  /\ a_subscribed
  /\ \E event \in AuthEvents :
       /\ event = "SIGNED_IN" => a_pending < MaxPending
       /\ event # "SIGNED_IN" => a_session
       /\ a_lastEvent' = event
       /\ a_session' = (event # "SIGNED_OUT")
       /\ a_last' = AuthStep("listener", "", TRUE,
                             IF a_mounted /\ event = "SIGNED_IN"
                             THEN {"getCurrentUser"} ELSE {})
       /\ IF ~a_mounted
          THEN UNCHANGED <<a_user, a_isLoading, a_pending>>
          ELSE IF event = "SIGNED_IN"
          THEN a_pending' = a_pending + 1 /\ UNCHANGED <<a_user, a_isLoading>>
          ELSE IF event = "SIGNED_OUT"
          THEN a_user' = Nothing /\ a_isLoading' = FALSE /\ UNCHANGED a_pending
          ELSE a_isLoading' = FALSE /\ UNCHANGED <<a_user, a_pending>>
  /\ UNCHANGED <<a_mounted, a_subscribed, a_init>>

\* the listener callback after getCurrentUser() has returned
Auth_listenerUser ==
  /\ a_pending > 0
  /\ \E outs \in SessionOuts : a_user' = currentUser(outs)
  /\ a_isLoading' = FALSE
  /\ a_pending' = a_pending - 1
  /\ a_last' = AuthStep("listenerSignedIn", "", TRUE, {})
  /\ UNCHANGED <<a_mounted, a_subscribed, a_init, a_session, a_lastEvent>>

\* the cleanup of the effect
Auth_unmount ==
  /\ a_mounted /\ a_init # "start"
  /\ a_mounted' = FALSE /\ a_subscribed' = FALSE
  /\ a_last' = AuthStep("cleanup", "", TRUE, {})
  /\ UNCHANGED <<a_user, a_isLoading, a_init, a_pending, a_session, a_lastEvent>>

\* what login(email, password) does to the user and what it returns
loginDemoAccount(cfg, user, email, o) ==
  IF ~cfg THEN [user |-> Just(DemoUser), ok |-> TRUE, requests |-> {}]
  ELSE [user |-> user, ok |-> (o = "ok"), requests |-> {"auth.signInWithPassword"}]

login(cfg, user, email, o) ==
  IF ~cfg
  THEN [user |-> Just([DemoUser EXCEPT !.email = email]), ok |-> TRUE, requests |-> {}]
  ELSE [user |-> user, ok |-> (o = "ok"), requests |-> {"auth.signInWithPassword"}]

\* login(email, password) of the context value; signIn throws on an error answer
Auth_login ==
  /\ a_mounted /\ a_init # "start"
  /\ \E email \in Emails, o \in FetchOutcomes \cup {"reject"} :
       LET r == login(configured, a_user, email, o) IN
         /\ a_user' = r.user
         /\ a_last' = AuthStep("login", email, r.ok, r.requests)
         /\ a_session' = (a_session \/ (configured /\ o = "ok"))
  /\ UNCHANGED <<a_isLoading, a_mounted, a_subscribed, a_init, a_pending, a_lastEvent>>

\* register(email, password, fullName) of the context value
Auth_register ==
  /\ a_mounted /\ a_init # "start"
  /\ \E email \in Emails, o \in FetchOutcomes \cup {"reject"} :
       IF ~configured
       THEN /\ a_user' = Just([id |-> "demo-user", email |-> email, name |-> "Asha M",
                               phone |-> "", farmName |-> "", location |-> ""])
            /\ a_last' = AuthStep("register", email, TRUE, {})
       ELSE /\ a_user' = a_user
            /\ a_last' = AuthStep("register", email, o = "ok", {"auth.signUp"})
  /\ UNCHANGED <<a_isLoading, a_mounted, a_subscribed, a_init, a_pending, a_session,
                 a_lastEvent>>

\* logout() of the context value; a failed signOut is logged and swallowed
Auth_logout ==
  /\ a_mounted /\ a_init # "start"
  /\ \E o \in FetchOutcomes \cup {"reject"} :
       IF configured
       THEN /\ a_user' = a_user
            /\ a_session' = (a_session /\ o # "ok")
            /\ a_last' = AuthStep("logout", "", TRUE, {"auth.signOut"})
       ELSE /\ a_user' = Nothing /\ a_session' = a_session
            /\ a_last' = AuthStep("logout", "", TRUE, {})
  /\ UNCHANGED <<a_isLoading, a_mounted, a_subscribed, a_init, a_pending, a_lastEvent>>

InitAuth ==
  /\ configured \in BOOLEAN
  /\ dbDevices = <<>> /\ dbThresholds = {} /\ dbAlerts = {} /\ dbSensor = {}
  /\ IdleComponents
  /\ IdleLater
  /\ IdleCalls
  /\ IdleToken
  /\ IdleRecs
  /\ a_user = Nothing /\ a_isLoading = TRUE /\ a_mounted = TRUE /\ a_subscribed = FALSE
  /\ a_init = "start" /\ a_pending = 0 /\ a_lastEvent = ""
  /\ a_last = AuthStep("", "", TRUE, {})
  /\ a_session \in BOOLEAN

NextAuth ==
  \/ Auth_effect /\ UNCHANGED <<devVars, readVars, callVars, tokenVars, afterAuthVars>>
  \/ Auth_initSession /\ UNCHANGED <<devVars, readVars, callVars, tokenVars, afterAuthVars>>
  \/ Auth_initUser /\ UNCHANGED <<devVars, readVars, callVars, tokenVars, afterAuthVars>>
  \/ Auth_event /\ UNCHANGED <<devVars, readVars, callVars, tokenVars, afterAuthVars>>
  \/ Auth_listenerUser /\ UNCHANGED <<devVars, readVars, callVars, tokenVars, afterAuthVars>>
  \/ Auth_unmount /\ UNCHANGED <<devVars, readVars, callVars, tokenVars, afterAuthVars>>
  \/ Auth_login /\ UNCHANGED <<devVars, readVars, callVars, tokenVars, afterAuthVars>>
  \/ Auth_register /\ UNCHANGED <<devVars, readVars, callVars, tokenVars, afterAuthVars>>
  \/ Auth_logout /\ UNCHANGED <<devVars, readVars, callVars, tokenVars, afterAuthVars>>

SpecAuth == InitAuth /\ [][NextAuth]_vars

\* the effect runs after the first render, and getCurrentUser returns: each
\* of its requests is raced against a timer; the getSession of initializeAuth
\* is awaited bare
SpecAuthFair ==
  /\ SpecAuth
  /\ WF_vars(Auth_effect /\ UNCHANGED <<devVars, readVars, callVars, tokenVars, afterAuthVars>>)
  /\ WF_vars(Auth_initUser /\ UNCHANGED <<devVars, readVars, callVars, tokenVars, afterAuthVars>>)
  /\ WF_vars(Auth_listenerUser /\ UNCHANGED <<devVars, readVars, callVars, tokenVars, afterAuthVars>>)

\* ------------------------------------------- WatsonXAPI: recommendations
\* lexemes of the content the model writes
MaxContentLen == 4

\* an array bracket, free text, a complete recommendation object, an object
\* without a title, and null; commas between array elements are understood
Lexemes == {"[", "]", "text", "rec", "partial", "other", "null"}

LlmRec == [type |-> "crop", title |-> "Plant legumes", description |-> "Rotate with legumes",
           confidence |-> 0, priority |-> "low", actionable |-> FALSE,
           reasoning |-> "Nitrogen is low"]

LlmPartial == [LlmRec EXCEPT !.title = ""]

\* a complete object whose type and priority are words of the model's own
LlmOther == [LlmRec EXCEPT !.type = "irrigation", !.priority = "urgent"]

\* JSON values
JNull == [kind |-> "null"]
JObject(rec) == [kind |-> "object", rec |-> rec]
JArray(items) == [kind |-> "array", items |-> items]

ElementOf(lexeme) ==
  CASE lexeme = "rec" -> JObject(LlmRec)
    [] lexeme = "partial" -> JObject(LlmPartial)
    [] lexeme = "other" -> JObject(LlmOther)
    [] OTHER -> JNull

ParseFail == [ok |-> FALSE, value |-> JNull, rest |-> <<>>]

RECURSIVE ParseValue(_)
RECURSIVE ParseItems(_, _)
ParseValue(s) ==
  IF s = <<>> THEN ParseFail
  ELSE IF Head(s) = "[" THEN ParseItems(Tail(s), <<>>)
  ELSE IF Head(s) \in {"rec", "partial", "other", "null"}
  THEN [ok |-> TRUE, value |-> ElementOf(Head(s)), rest |-> Tail(s)]
  ELSE ParseFail

ParseItems(s, acc) ==
  IF s = <<>> THEN ParseFail
  ELSE IF Head(s) = "]" THEN [ok |-> TRUE, value |-> JArray(acc), rest |-> Tail(s)]
  ELSE LET v == ParseValue(s) IN
       IF v.ok THEN ParseItems(v.rest, Append(acc, v.value)) ELSE ParseFail

\* JSON.parse: one value and nothing after it
JSONparse(s) ==
  LET v == ParseValue(s) IN
  IF v.ok /\ v.rest = <<>> THEN [ok |-> TRUE, value |-> v.value]
  ELSE [ok |-> FALSE, value |-> JNull]

\* aiResponse.match(/\[[\s\S]*\]/): from the first '[' to the last ']'
jsonMatch(aiResponse) ==
  LET opens == { i \in 1..Len(aiResponse) : aiResponse[i] = "[" } IN
  IF opens = {} THEN Nothing
  ELSE LET first == CHOOSE i \in opens : \A j \in opens : i <= j
           closes == { i \in 1..Len(aiResponse) : aiResponse[i] = "]" /\ i > first } IN
       IF closes = {} THEN Nothing
       ELSE LET last == CHOOSE i \in closes : \A j \in closes : j <= i IN
            Just(SubSeq(aiResponse, first, last))

\* the filter of getRecommendations, for an element that is not null
validRecommendation(v) ==
  /\ v.kind = "object"
  /\ v.rec.type # "" /\ v.rec.title # "" /\ v.rec.description # ""
  /\ v.rec.confidence # NullNum /\ v.rec.priority # ""
  /\ v.rec.actionable \in BOOLEAN /\ v.rec.reasoning # ""

\* `${n}` of a number kept in tenths
Tenths(v) ==
  IF v % 10 = 0 THEN ToString(v \div 10)
  ELSE ToString(v \div 10) \o "." \o ToString(v % 10)

\* the fallback with the limits of the optimal ranges counted as out of range
getFallbackRecommendationsInclusive(sensorData) ==
  LET irrigation ==
        IF sensorData.moisture <= 40
        THEN << [type |-> "practice", title |-> "Increase Irrigation",
                 description |-> "Soil moisture is below optimal levels. Consider increasing irrigation frequency or duration.",
                 confidence |-> 85, priority |-> "high", actionable |-> TRUE,
                 reasoning |-> "Current soil moisture at " \o ToString(sensorData.moisture)
                               \o "% is below the optimal range of 40-60%."] >>
        ELSE <<>>
      acidity ==
        IF sensorData.ph <= 60 \/ sensorData.ph >= 75
        THEN << [type |-> "practice", title |-> "Soil pH Adjustment",
                 description |-> (IF sensorData.ph < 60 THEN "Apply lime to increase soil pH"
                                  ELSE "Apply sulfur to decrease soil pH"),
                 confidence |-> 80, priority |-> "medium", actionable |-> TRUE,
                 reasoning |-> "Current pH of " \o Tenths(sensorData.ph)
                               \o " is outside the optimal range of 6.0-7.5."] >>
        ELSE <<>>
      nitrogen ==
        IF sensorData.n < 30
        THEN << [type |-> "fertilizer", title |-> "Nitrogen Fertilizer Application",
                 description |-> "Apply nitrogen-rich fertilizer to boost plant growth and leaf development.",
                 confidence |-> 75, priority |-> "medium", actionable |-> TRUE,
                 reasoning |-> "Nitrogen levels at " \o ToString(sensorData.n)
                               \o "ppm are below optimal range."] >>
        ELSE <<>> IN
  irrigation \o acidity \o nitrogen

\* sensorData: moisture in %, ph in tenths, n in ppm
getFallbackRecommendations(sensorData) ==
  LET irrigation ==
        IF sensorData.moisture < 40
        THEN << [type |-> "practice", title |-> "Increase Irrigation",
                 description |-> "Soil moisture is below optimal levels. Consider increasing irrigation frequency or duration.",
                 confidence |-> 85, priority |-> "high", actionable |-> TRUE,
                 reasoning |-> "Current soil moisture at " \o ToString(sensorData.moisture)
                               \o "% is below the optimal range of 40-60%."] >>
        ELSE <<>>
      acidity ==
        IF sensorData.ph < 60 \/ sensorData.ph > 75
        THEN << [type |-> "practice", title |-> "Soil pH Adjustment",
                 description |-> (IF sensorData.ph < 60 THEN "Apply lime to increase soil pH"
                                  ELSE "Apply sulfur to decrease soil pH"),
                 confidence |-> 80, priority |-> "medium", actionable |-> TRUE,
                 reasoning |-> "Current pH of " \o Tenths(sensorData.ph)
                               \o " is outside the optimal range of 6.0-7.5."] >>
        ELSE <<>>
      nitrogen ==
        IF sensorData.n < 30
        THEN << [type |-> "fertilizer", title |-> "Nitrogen Fertilizer Application",
                 description |-> "Apply nitrogen-rich fertilizer to boost plant growth and leaf development.",
                 confidence |-> 75, priority |-> "medium", actionable |-> TRUE,
                 reasoning |-> "Nitrogen levels at " \o ToString(sensorData.n)
                               \o "ppm are below optimal range."] >>
        ELSE <<>> IN
  irrigation \o acidity \o nitrogen

\* answers of the chat endpoint: a body, a non-OK status, or no answer
ChatResponses == {"ok", "http_error", "reject"}

\* the body of getRecommendations after the token has been obtained
recommendationsFrom(chat, aiResponse, sensorData) ==
  IF chat # "ok" THEN getFallbackRecommendations(sensorData)
  ELSE IF aiResponse = <<>> THEN getFallbackRecommendations(sensorData)
  ELSE LET m == jsonMatch(aiResponse)
           jsonString == IF m # Nothing THEN m[1] ELSE aiResponse
           parsed == JSONparse(jsonString) IN
       IF ~parsed.ok THEN getFallbackRecommendations(sensorData)
       ELSE IF parsed.value.kind # "array" THEN getFallbackRecommendations(sensorData)
       ELSE IF \E i \in 1..Len(parsed.value.items) : parsed.value.items[i] = JNull
       THEN getFallbackRecommendations(sensorData)
       ELSE LET kept == SelectSeq(parsed.value.items, validRecommendation) IN
            [ i \in 1..Len(kept) |-> kept[i].rec ]

getRecommendations(apiKey, projectId, cachedToken, now, iam, tokenData, chat, aiResponse, sensorData) ==
  IF apiKey = "" \/ projectId = ""
  THEN [threw |-> FALSE, value |-> <<>>, tokenThrew |-> FALSE, chat |-> ""]
  ELSE LET g == generateToken(apiKey, cachedToken, now, iam, tokenData) IN
       IF g.threw
       THEN [threw |-> FALSE, value |-> getFallbackRecommendations(sensorData),
             tokenThrew |-> TRUE, chat |-> ""]
       ELSE [threw |-> FALSE,
             value |-> recommendationsFrom(chat, aiResponse, sensorData),
             tokenThrew |-> FALSE, chat |-> chat]

SensorSamples == { [moisture |-> 35, ph |-> 55, n |-> 20],
                   [moisture |-> 45, ph |-> 65, n |-> 40],
                   [moisture |-> 40, ph |-> 80, n |-> 30] }

\* expires_in of the tokens issued while recommendations are fetched
RecLifetime == CHOOSE l \in Lifetimes : \A k \in Lifetimes : k <= l

Rec_getRecommendations ==
  /\ \E iam \in IamResponses, chat \in ChatResponses :
       LET tokenData == WatsonXToken(w_issued + 1, w_now + RecLifetime)
           r == getRecommendations(r_apiKey, r_projectId, w_cachedToken, w_now, iam,
                                   tokenData, chat, r_content, r_sensor) IN
       /\ r_ret' = [called |-> TRUE, chat |-> r.chat,
                    tokenThrew |-> r.tokenThrew, threw |-> r.threw, value |-> r.value]
       /\ IF r_apiKey = "" \/ r_projectId = ""
          THEN UNCHANGED <<w_cachedToken, w_issued>>
          ELSE LET g == generateToken(r_apiKey, w_cachedToken, w_now, iam, tokenData) IN
               /\ w_cachedToken' = g.cache
               /\ w_issued' = (IF g.requested /\ iam = "ok" THEN w_issued + 1
                               ELSE w_issued)
  /\ UNCHANGED <<r_apiKey, r_projectId, r_sensor, r_content, w_now, w_tok>>

\* the model writes one more lexeme of the answer the chat endpoint will give
Env_modelAnswer ==
  /\ r_apiKey # "" /\ r_projectId # ""
  /\ Len(r_content) < MaxContentLen
  /\ \E lexeme \in Lexemes : r_content' = Append(r_content, lexeme)
  /\ r_ret' = NoRec
  /\ UNCHANGED <<r_apiKey, r_projectId, r_sensor>>

InitRecs ==
  /\ configured = TRUE
  /\ dbDevices = <<>> /\ dbThresholds = {} /\ dbAlerts = {} /\ dbSensor = {}
  /\ IdleComponents
  /\ IdleLater
  /\ IdleCalls
  /\ IdleToken
  /\ IdleAuth
  /\ r_apiKey \in {"", "key"} /\ r_projectId \in {"", "proj"}
  /\ r_sensor \in SensorSamples
  /\ r_content = <<>> /\ r_ret = NoRec

NextRecs ==
  \/ Rec_getRecommendations /\ UNCHANGED <<devVars, readVars, callVars, authVars, laterVars>>
  \/ Env_modelAnswer /\ UNCHANGED <<devVars, readVars, callVars, tokenVars, authVars, laterVars>>

SpecRecs == InitRecs /\ [][NextRecs]_vars

\* readings on both sides of each limit of the fallback: moisture in %, ph in
\* tenths, n in ppm
FallbackInputs ==
  [moisture : {39, 40, 41, 70}, ph : {59, 60, 61, 75, 76, 80}, n : {29, 30, 31}]

\* the chat endpoint gives no content, so every answer is the fallback
InitFallback ==
  /\ configured = TRUE
  /\ dbDevices = <<>> /\ dbThresholds = {} /\ dbAlerts = {} /\ dbSensor = {}
  /\ IdleComponents
  /\ IdleLater
  /\ IdleCalls
  /\ IdleToken
  /\ IdleAuth
  /\ r_apiKey = "key" /\ r_projectId = "proj"
  /\ r_sensor \in FallbackInputs
  /\ r_content = <<>> /\ r_ret = NoRec

NextFallback ==
  \/ Rec_getRecommendations /\ UNCHANGED <<devVars, readVars, callVars, authVars, laterVars>>

SpecFallback == InitFallback /\ [][NextFallback]_vars

\* ------------------------------------------- alert webhook delivery
\* (README, "Alert Webhook System": trigger, edge function, delivery)

\* "Failed webhooks are retried up to 3 times with exponential backoff"
MaxRetries == 3

\* the delivery after a failed request, earlier reading: one retry too many
afterFailureInclusive(d) ==
  IF d.sent - 1 <= MaxRetries
  THEN [d EXCEPT !.status = "waiting", !.backoff = 2 ^ (d.sent - 1)]
  ELSE [d EXCEPT !.status = "abandoned"]

\* the delivery after a failed request: d.sent - 1 retries were made so far
afterFailure(d) ==
  IF d.sent - 1 < MaxRetries
  THEN [d EXCEPT !.status = "waiting", !.backoff = 2 ^ (d.sent - 1)]
  ELSE [d EXCEPT !.status = "abandoned"]

\* the trigger on the alerts table calls the edge function, which sends the
\* first request to every URL
Hook_trigger ==
  /\ ~h_alert
  /\ h_alert' = TRUE
  /\ h_delivery' = [ u \in WebhookUrls |-> [status |-> "sending", sent |-> 1, backoff |-> 0] ]

\* a request is answered: delivered, or failed and retried or abandoned
Hook_answer ==
  \E u \in WebhookUrls, ok \in BOOLEAN :
    /\ h_delivery[u].status = "sending"
    /\ h_delivery' = [h_delivery EXCEPT ![u] =
                        IF ok THEN [@ EXCEPT !.status = "delivered"] ELSE afterFailure(@)]
    /\ UNCHANGED h_alert

\* the backoff has passed: the request is sent again
Hook_retry ==
  \E u \in WebhookUrls :
    /\ h_delivery[u].status = "waiting"
    /\ h_delivery' = [h_delivery EXCEPT ![u] =
                        [status |-> "sending", sent |-> @.sent + 1, backoff |-> 0]]
    /\ UNCHANGED h_alert

InitHooks ==
  /\ configured = TRUE
  /\ dbDevices = <<>> /\ dbThresholds = {} /\ dbAlerts = {} /\ dbSensor = {}
  /\ IdleComponents
  /\ IdleCalls /\ IdleToken /\ IdleAuth /\ IdleRecs
  /\ IdleHooks /\ IdleDash

NextHooks ==
  \/ Hook_trigger /\ UNCHANGED <<devVars, readVars, callVars, tokenVars, authVars, recVars, dashVars>>
  \/ Hook_answer /\ UNCHANGED <<devVars, readVars, callVars, tokenVars, authVars, recVars, dashVars>>
  \/ Hook_retry /\ UNCHANGED <<devVars, readVars, callVars, tokenVars, authVars, recVars, dashVars>>

SpecHooks == InitHooks /\ [][NextHooks]_vars

\* every request is answered or times out, and every backoff timer fires
SpecHooksFair ==
  /\ SpecHooks
  /\ WF_vars(Hook_answer /\ UNCHANGED <<devVars, readVars, callVars, tokenVars, authVars, recVars, dashVars>>)
  /\ WF_vars(Hook_retry /\ UNCHANGED <<devVars, readVars, callVars, tokenVars, authVars, recVars, dashVars>>)

\* ------------------------------- Dashboard, AIRecommendations, mock api

\* readings the Dashboard obtains while it is mounted, calls it has in flight
MaxSensorVersions == 3
MaxInflight == 2

\* watsonxApi.isConfigured()
isConfigured(apiKey, projectId) == apiKey # "" /\ projectId # ""

\* EcoBoltAPI.getLatestSensorData: how a call made now will end
apiGetLatestSensorData(isAuthenticated) == IF isAuthenticated THEN "data" ELSE "throw"

\* fetchRecommendations of the render whose state is s; isConfigured is the
\* value that render saw.  Without an await (no data, or the fallback branch)
\* the whole function runs in the calling step.
fetchRecommendations(s, sensorData, isManualRefresh) ==
  LET run == [auto |-> ~isManualRefresh,
              source |-> IF s.isConfigured THEN "watsonxApi.getRecommendations"
                         ELSE "generateFallbackRecommendations"]
      auto == s.auto + (IF isManualRefresh THEN 0 ELSE 1) IN
  IF sensorData = 0 THEN [s EXCEPT !.loading = FALSE]
  ELSE IF s.isConfigured
  THEN [s EXCEPT !.refreshing = (isManualRefresh \/ @), !.pending = @ + 1,
                 !.run = run, !.auto = auto]
  ELSE [s EXCEPT !.recommendations = run.source, !.hasLoadedOnce = TRUE,
                 !.loading = FALSE, !.refreshing = FALSE, !.run = run, !.auto = auto]

\* the first-load effect, fetching whenever there is sensor data
firstLoadEffectEveryChange(s, sensorData) ==
  IF sensorData # 0
  THEN fetchRecommendations([s EXCEPT !.loading = TRUE], sensorData, FALSE)
  ELSE s

\* the effect on [sensorData, hasLoadedOnce], run with the state s of its render
firstLoadEffect(s, sensorData) ==
  IF sensorData # 0 /\ ~s.hasLoadedOnce
  THEN fetchRecommendations([s EXCEPT !.loading = TRUE], sensorData, FALSE)
  ELSE IF sensorData # 0 /\ s.hasLoadedOnce THEN [s EXCEPT !.loading = FALSE]
  ELSE s

\* the render after a state change: the effect runs again when hasLoadedOnce changed
rerender(before, after, sensorData) ==
  IF after.hasLoadedOnce # before.hasLoadedOnce THEN firstLoadEffect(after, sensorData)
  ELSE after

\* first render and both effects: the configuration effect queues
\* setIsConfigured, the first-load effect runs with the state of the first render
mountAIRecommendations(sensorData, configuredNow) ==
  LET first == [AiInitial EXCEPT !.mounted = TRUE]
      after == [firstLoadEffect(first, sensorData) EXCEPT !.isConfigured = configuredNow] IN
  rerender(first, after, sensorData)

\* AIRecommendations when the Dashboard renders with sensorData
renderAIRecommendations(s, sensorData, changed, configuredNow) ==
  IF sensorData = 0 THEN s
  ELSE IF ~s.mounted THEN mountAIRecommendations(sensorData, configuredNow)
  ELSE IF changed THEN firstLoadEffect(s, sensorData)
  ELSE s

\* EcoBoltAPI.login with an email and a password
Api_login ==
  /\ ~api_isAuthenticated
  /\ api_isAuthenticated' = TRUE
  /\ UNCHANGED <<d_mounted, d_sensorData, d_loading, d_refreshing, d_calls, ai>>

\* EcoBoltAPI.logout
Api_logout ==
  /\ api_isAuthenticated
  /\ api_isAuthenticated' = FALSE
  /\ UNCHANGED <<d_mounted, d_sensorData, d_loading, d_refreshing, d_calls, ai>>

\* the Dashboard page is shown to the signed-in user: first render and the
\* effect, which calls fetchSensorData and sets the 30 s interval
Dash_mount ==
  /\ ~d_mounted /\ a_user # Nothing
  /\ d_mounted' = TRUE /\ d_sensorData' = 0 /\ d_loading' = TRUE /\ d_refreshing' = FALSE
  /\ d_calls' = << apiGetLatestSensorData(api_isAuthenticated) >>
  /\ ai' = AiInitial
  /\ UNCHANGED api_isAuthenticated

\* the interval fires, or the Refresh button is pressed: fetchSensorData
Dash_fetchSensorData ==
  /\ d_mounted /\ Len(d_calls) < MaxInflight
  /\ d_sensorData + Len(d_calls) < MaxSensorVersions
  /\ \E manual \in BOOLEAN :
       /\ manual => (~d_loading /\ ~d_refreshing)
       /\ d_refreshing' = (manual \/ d_refreshing)
  /\ d_calls' = Append(d_calls, apiGetLatestSensorData(api_isAuthenticated))
  /\ UNCHANGED <<api_isAuthenticated, d_mounted, d_sensorData, d_loading, ai>>

\* fetchSensorData after its await, and the render that follows
Dash_fetchDone ==
  /\ d_mounted /\ d_calls # <<>>
  /\ d_calls' = Tail(d_calls)
  /\ d_sensorData' = (IF Head(d_calls) = "data" THEN d_sensorData + 1 ELSE d_sensorData)
  /\ d_loading' = FALSE /\ d_refreshing' = FALSE
  /\ ai' = renderAIRecommendations(ai, d_sensorData', d_sensorData' # d_sensorData,
                                   isConfigured(r_apiKey, r_projectId))
  /\ UNCHANGED <<api_isAuthenticated, d_mounted>>

\* leaving the page: the interval is cleared, later setState calls do nothing
Dash_unmount ==
  /\ d_mounted
  /\ d_mounted' = FALSE /\ d_calls' = <<>> /\ ai' = AiInitial
  /\ UNCHANGED <<api_isAuthenticated, d_sensorData, d_loading, d_refreshing>>

\* handleRefresh of AIRecommendations (the button is disabled while refreshing)
Ai_handleRefresh ==
  /\ ai.mounted /\ ~ai.refreshing /\ ai.pending < MaxInflight
  /\ ai' = rerender(ai, fetchRecommendations([ai EXCEPT !.refreshing = TRUE],
                                             d_sensorData, TRUE), d_sensorData)
  /\ UNCHANGED <<api_isAuthenticated, d_mounted, d_sensorData, d_loading, d_refreshing,
                 d_calls>>

\* fetchRecommendations after watsonxApi.getRecommendations has returned
Ai_recommendationsReturned ==
  /\ ai.mounted /\ ai.pending > 0
  /\ ai' = rerender(ai, [ai EXCEPT !.pending = @ - 1,
                                   !.recommendations = "watsonxApi.getRecommendations",
                                   !.hasLoadedOnce = TRUE, !.loading = FALSE,
                                   !.refreshing = FALSE], d_sensorData)
  /\ UNCHANGED <<api_isAuthenticated, d_mounted, d_sensorData, d_loading, d_refreshing,
                 d_calls>>

InitDash ==
  /\ configured = FALSE
  /\ dbDevices = <<>> /\ dbThresholds = {} /\ dbAlerts = {} /\ dbSensor = {}
  /\ IdleComponents
  /\ IdleCalls /\ IdleToken /\ IdleAuth /\ IdleHooks /\ IdleDash
  /\ r_apiKey \in {"", "key"} /\ r_projectId \in {"", "proj"}
  /\ r_sensor = [moisture |-> 45, ph |-> 65, n |-> 40]
  /\ r_content = <<>> /\ r_ret = NoRec

NextDash ==
  \/ Auth_effect /\ UNCHANGED <<devVars, readVars, callVars, tokenVars, afterAuthVars>>
  \/ Auth_login /\ UNCHANGED <<devVars, readVars, callVars, tokenVars, afterAuthVars>>
  \/ Api_login /\ UNCHANGED <<devVars, readVars, callVars, tokenVars, authVars, recVars, hookVars>>
  \/ Api_logout /\ UNCHANGED <<devVars, readVars, callVars, tokenVars, authVars, recVars, hookVars>>
  \/ Dash_mount /\ UNCHANGED <<devVars, readVars, callVars, tokenVars, authVars, recVars, hookVars>>
  \/ Dash_fetchSensorData /\ UNCHANGED <<devVars, readVars, callVars, tokenVars, authVars, recVars, hookVars>>
  \/ Dash_fetchDone /\ UNCHANGED <<devVars, readVars, callVars, tokenVars, authVars, recVars, hookVars>>
  \/ Dash_unmount /\ UNCHANGED <<devVars, readVars, callVars, tokenVars, authVars, recVars, hookVars>>
  \/ Ai_handleRefresh /\ UNCHANGED <<devVars, readVars, callVars, tokenVars, authVars, recVars, hookVars>>
  \/ Ai_recommendationsReturned /\ UNCHANGED <<devVars, readVars, callVars, tokenVars, authVars, recVars, hookVars>>

SpecDash == InitDash /\ [][NextDash]_vars

\* ---------------------------------------------------------------- claims
\* C1: one device per account -- after any sequence of DeviceManagement
\* operations, failed fetches included, the account owns at most one device
\* in the backend.
C1_OneDevicePerAccount == Len(dbDevices) <= 1

C10_AlertsReadOnly ==
  \A r \in sent : r.table = "alerts" => r.verb \in {"select", "subscribe"}

\* getAlerts queried the table while it held an alert
C10_Witness ==
  /\ Req("alerts", "select") \in sent
  /\ ret.op = "getAlerts" /\ ret.value # {}

\* C4: getLatestSensorData never throws -- it returns null on a failed,
\* rejected or empty query and on a missing configuration, and the transformed
\* latest row only when the query returned at least one row.
C4_LatestNeverThrows ==
  ret.op = "getLatestSensorData" =>
    LET matching == ForDevice(dbSensor, ret.arg) IN
    /\ ~ret.threw
    /\ IF configured /\ ret.o = "ok" /\ matching # {}
       THEN \E r \in matching :
              /\ \A q \in matching : q.timestamp <= r.timestamp
              /\ ret.value = Just(transformSensorData(r))
              /\ ret.value[1].moisture = (IF r.moisture = NullNum THEN 0 ELSE r.moisture)
       ELSE ret.value = Nothing

\* the latest of two stored rows came back, its null columns read as 0
C4_Witness ==
  /\ ret.op = "getLatestSensorData" /\ ~ret.threw
  /\ Cardinality(ForDevice(dbSensor, ret.arg)) = 2
  /\ ret.value # Nothing
  /\ ret.value[1].timestamp = Now - 10 /\ ret.value[1].moisture = 0

\* C8: getUserDevices, getSensorDataHistory, getThresholds and getAlerts never
\* throw -- on a backend error, a rejected request or a missing configuration
\* each returns an empty list.
C8_ReadsNeverThrow ==
  ret.op \in {"getUserDevices", "getSensorDataHistory", "getThresholds", "getAlerts"} =>
    /\ ~ret.threw
    /\ (~configured \/ ret.o \in {"error", "reject"}) =>
         IF ret.op \in {"getUserDevices", "getSensorDataHistory"}
         THEN ret.value = <<>> ELSE ret.value = {}

\* a failed thresholds query over a table that holds rows
C8_Witness ==
  /\ ret.op = "getThresholds" /\ ret.o = "error" /\ configured
  /\ ret.arg = "" /\ dbThresholds # {}

\* C2: every backend call is raced against a timeout, so every call that is
\* waiting for the backend completes, without an error, even when the
\* backend never answers
C2_EveryCallCompletes == (c_pc = "awaiting") ~> (c_pc = "done" /\ ~ret.threw)

\* C3: given a signed-in session, getCurrentUser returns id and email of the
\* auth identity, name = profile full_name, else metadata full_name, else
\* 'User', and phone, farmName, location from the profile row or '' when the
\* row or the field is missing or the profile query fails or times out
C3_MergedProfile ==
  (ret.op = "getCurrentUser" /\ configured /\
     (UsesProvided(c_args) \/ (Len(c_outs) = 3 /\ c_outs[2] = "ok"))) =>
    LET a == c_args
        answered == c_outs[Len(c_outs)] = "ok" /\ Len(a.rows) > 0
        Field(f) == IF answered /\ a.rows[1][f] # Null THEN a.rows[1][f] ELSE ""
        expected ==
          [id |-> IF UsesProvided(a) THEN a.userId ELSE SessionUser.id,
           email |-> IF UsesProvided(a) THEN a.userEmail ELSE SessionUser.email,
           name |-> IF Field("full_name") # "" THEN Field("full_name")
                    ELSE IF a.meta \notin {Null, ""} THEN a.meta ELSE "User",
           phone |-> Field("phone"),
           farmName |-> Field("farm_name"),
           location |-> Field("location")] IN
    /\ ~ret.threw
    /\ ret.value = Just(expected)

C3_Witness ==
  /\ ret.op = "getCurrentUser" /\ ~UsesProvided(c_args)
  /\ c_outs = <<"ok", "ok", "ok">>
  /\ Len(c_args.rows) > 0 /\ c_args.rows[1].full_name = Null /\ c_args.meta = Null
  /\ ret.value # Nothing
  /\ ret.value[1].name = "User" /\ ret.value[1].farmName = "Green Acres"

\* C5 (as amended): generateToken returns the cached token, without a
\* request, exactly when a token is cached and the clock is earlier than its
\* expiration minus 300 seconds; otherwise it requests a token; an issued
\* token replaces the cache and is returned whatever its expiration, a failed
\* request throws and leaves the cache as it was; so a token taken from the
\* cache is never within 300 seconds of its expiration
C5_TokenCache ==
  w_tok.called =>
    LET fresh == /\ w_tok.before # Nothing
                 /\ w_tok.now < w_tok.before[1].expiration - 300 IN
    /\ w_tok.requested <=> ~fresh
    /\ fresh => /\ ~w_tok.threw
                /\ w_tok.value = w_tok.before[1].access_token
                /\ w_cachedToken = w_tok.before
    /\ (~fresh /\ w_tok.resp = "ok") =>
         /\ ~w_tok.threw
         /\ w_cachedToken # Nothing
         /\ w_cachedToken # w_tok.before
         /\ w_tok.value = w_cachedToken[1].access_token
         /\ w_cachedToken[1].access_token = w_issued
    /\ (~fresh /\ w_tok.resp # "ok") =>
         /\ w_tok.threw
         /\ w_cachedToken = w_tok.before

C5_Witness ==
  /\ w_tok.called /\ ~w_tok.requested
  /\ w_tok.now = w_tok.before[1].expiration - 400
  /\ w_tok.value = 2

\* C5 (as stated): whenever the cached token is not returned, a new token is
\* requested and replaces the cache, and no returned token is within 300
\* seconds of its expiration
C5_AsStated ==
  w_tok.called =>
    /\ w_tok.requested => (w_cachedToken # Nothing /\ w_cachedToken # w_tok.before)
    /\ ~w_tok.threw => w_tok.now < w_cachedToken[1].expiration - 300

\* C6: once the AuthProvider has unmounted, no step changes user or
\* isLoading, whichever callback of initializeAuth or of the auth listener
\* takes it
C6_NoChangeAfterUnmount ==
  [][~a_mounted => (a_user' = a_user /\ a_isLoading' = a_isLoading)]_vars

\* C7: getRecommendations never throws; it returns [] when the API key or the
\* project id is missing; the fallback recommendations when the token request
\* fails, the API answers non-OK, there is no content or the content does not
\* parse as a JSON array; otherwise exactly the elements of the parsed array
\* that pass validation
C7_RecommendationsNeverThrow ==
  r_ret.called =>
    LET m == jsonMatch(r_content)
        parsed == JSONparse(IF m # Nothing THEN m[1] ELSE r_content)
        isArray == parsed.ok /\ parsed.value.kind = "array"
        Passes(v) == v # JNull /\ validRecommendation(v)
        kept == SelectSeq(parsed.value.items, Passes) IN
    /\ ~r_ret.threw
    /\ IF r_apiKey = "" \/ r_projectId = "" THEN r_ret.value = <<>>
       ELSE IF r_ret.tokenThrew \/ r_ret.chat # "ok" \/ r_content = <<>> \/ ~isArray
       THEN r_ret.value = getFallbackRecommendations(r_sensor)
       ELSE r_ret.value = [ i \in 1..Len(kept) |-> kept[i].rec ]

\* C11: when Supabase is not configured, initialisation leaves the demo user
\* with isLoading false, login returns true for any email and leaves a demo
\* user carrying that email, logout leaves no user, and none of these steps
\* sends a request to the backend
C11_DemoMode ==
  ~configured =>
    /\ a_last.requests = {}
    /\ a_last.op = "initializeAuth" => (a_user = Just(DemoUser) /\ ~a_isLoading)
    /\ a_last.op = "login" =>
         /\ a_last.ok
         /\ a_user = Just([DemoUser EXCEPT !.email = a_last.email])
    /\ a_last.op = "logout" => a_user = Nothing

C11_Witness ==
  /\ ~configured /\ a_last.op = "login" /\ a_last.email = "asha@farm"
  /\ a_user # Nothing /\ a_user[1].email = "asha@farm" /\ ~a_isLoading

\* C12: when handleSubmit has added a device and reports 'Device added
\* successfully with default thresholds', the backend holds a threshold for
\* each of the ten sensor parameters of the new device, with its default min
\* and max
C12_DefaultThresholdsExist ==
  (dm_success = MsgAdded /\ "addDevice" \in calls) =>
    LET dev == dbDevices[Len(dbDevices)] IN
    \A i \in 1..Len(defaultThresholds) :
      \E r \in dbThresholds :
        /\ r.device_id = dev
        /\ r.parameter = defaultThresholds[i].parameter
        /\ r.min_value = defaultThresholds[i].min_value
        /\ r.max_value = defaultThresholds[i].max_value

\* C13: every recommendation getRecommendations returns has a type among
\* practice, fertilizer, crop, insight and a priority among high, medium, low
C13_TypeAndPriorityInRange ==
  r_ret.called =>
    \A i \in 1..Len(r_ret.value) :
      /\ r_ret.value[i].type \in {"practice", "fertilizer", "crop", "insight"}
      /\ r_ret.value[i].priority \in {"high", "medium", "low"}

\* C14: for one alert and one webhook URL a failing delivery is retried at
\* most 3 times after the first request and is then abandoned, and every
\* delivery ends, delivered or abandoned
C14_WebhookRetriesEnd ==
  /\ [](\A u \in WebhookUrls :
          /\ h_delivery[u].sent <= 1 + 3
          /\ h_delivery[u].status = "abandoned" => h_delivery[u].sent = 1 + 3)
  /\ \A u \in WebhookUrls :
       h_alert ~> (h_delivery[u].status \in {"delivered", "abandoned"})

C14_Witness ==
  /\ h_delivery["ALERT_WEBHOOK_URL"].status = "abandoned"
  /\ h_delivery["ALERT_WEBHOOK_URL"].sent = 4
  /\ h_delivery["SLACK_WEBHOOK_URL"].status = "delivered"
  /\ h_delivery["SLACK_WEBHOOK_URL"].sent = 3

\* C15: when the listener has finished handling a SIGNED_IN event that
\* carried a session user, the context user is not null: it is the user of
\* the session, with the merged profile or with the basic fields
C15_SignedInUserNonNull ==
  a_last.op = "listenerSignedIn" =>
    /\ a_user # Nothing
    /\ a_user[1].id = SessionUser.id

\* C16: if SIGNED_OUT is the last auth event delivered, then when a listener
\* callback finishes and none is left awaiting getCurrentUser, the context
\* user is null, also when an earlier SIGNED_IN callback was still awaiting
\* while SIGNED_OUT arrived
C16_SignedOutWins ==
  (/\ a_lastEvent = "SIGNED_OUT"
   /\ a_last.op \in {"listener", "listenerSignedIn"}
   /\ a_pending = 0) => a_user = Nothing

\* C17: while the AuthProvider stays mounted, isLoading eventually becomes
\* false, whatever the initial session check and the profile lookup do
C17_LoadingEnds ==
  <>(~a_mounted \/ ~a_isLoading)

\* C18: when WatsonX is configured, every run of fetchRecommendations, the
\* automatic first-load run included, takes its recommendations from
\* watsonxApi.getRecommendations and not from generateFallbackRecommendations
C18_ConfiguredUsesWatsonX ==
  (ai.mounted /\ isConfigured(r_apiKey, r_projectId) /\ ai.run.source # "") =>
    ai.run.source = "watsonxApi.getRecommendations"

\* C19: AIRecommendations fetches automatically at most once while it is
\* mounted: later changes of sensorData start no fetch, only handleRefresh does
C19_OneAutomaticFetch ==
  ai.mounted => ai.auto <= 1

C19_Witness ==
  /\ ai.mounted /\ ai.auto = 1 /\ d_sensorData = 3
  /\ ~ai.run.auto /\ ai.run.source = "watsonxApi.getRecommendations"

\* C20: after a user has signed in through AuthProvider.login, once the
\* Dashboard's loading flag is false its sensorData is not null
C20_DashboardHasReading ==
  (/\ a_last.op = "login" /\ a_last.ok /\ a_user # Nothing
   /\ d_mounted /\ ~d_loading) => d_sensorData # 0

\* C21: the hardcoded fallback returns, in this order, the irrigation
\* recommendation exactly when moisture < 40, the pH adjustment exactly when
\* ph < 6.0 or ph > 7.5 (lime below 6.0, sulfur above 7.5) and the nitrogen
\* recommendation exactly when n < 30; it is empty exactly when all three
\* readings are in range
C21_FallbackByReading ==
  (r_ret.called /\ r_content = <<>> /\ r_apiKey # "" /\ r_projectId # "") =>
    LET v == r_ret.value
        titles == [ i \in 1..Len(v) |-> v[i].title ]
        dry == r_sensor.moisture < 40
        acid == r_sensor.ph < 60
        alkaline == r_sensor.ph > 75
        poor == r_sensor.n < 30 IN
    /\ titles = (IF dry THEN << "Increase Irrigation" >> ELSE <<>>)
                \o (IF acid \/ alkaline THEN << "Soil pH Adjustment" >> ELSE <<>>)
                \o (IF poor THEN << "Nitrogen Fertilizer Application" >> ELSE <<>>)
    /\ \A i \in 1..Len(v) :
         v[i].title = "Soil pH Adjustment" =>
           v[i].description = (IF acid THEN "Apply lime to increase soil pH"
                               ELSE "Apply sulfur to decrease soil pH")
    /\ (v = <<>>) <=> (~dry /\ ~acid /\ ~alkaline /\ ~poor)

\* moisture on its limit gives no irrigation entry, ph above 7.5 gives sulfur,
\* n below 30 gives the nitrogen entry after it
C21_Witness ==
  /\ r_ret.called /\ r_sensor = [moisture |-> 40, ph |-> 76, n |-> 29]
  /\ Len(r_ret.value) = 2
  /\ r_ret.value[1].description = "Apply sulfur to decrease soil pH"
  /\ r_ret.value[2].type = "fertilizer"

====
